---- MODULE Spec2Model ----
(***************************************************************************)
(* A model of the extraction reconciliation pipeline of the RFQ backend:   *)
(*   services/validator.py  (rule layer: snippet location, normalisation,  *)
(*                           confidence scoring)                           *)
(*   services/verifier.py   (second-opinion verifier, fail-open)           *)
(*   services/ai.py         (extract_data_from_text and its chunked,       *)
(*                           parallel wrapper extract_data_from_text_async)*)
(*                                                                         *)
(* Text is modelled as Python str: a sequence of one-character strings.    *)
(* None is the one-element sequence NONE (no text holds that element).     *)
(* Floats that the code only adds, compares and clips are integers in      *)
(* tenths (score) or plain integers (dimensions of the sample documents).  *)
(***************************************************************************)
EXTENDS Integers, Sequences, FiniteSets, TLC

(***************************************************************************)
(* Python str operations                                                   *)
(***************************************************************************)
NONE == <<"None">>

\* Python truthiness of an optional str: None and "" are falsy.
Truthy(s) == s # NONE /\ s # <<>>

Digits == {"0", "1", "2", "3", "4", "5", "6", "7", "8", "9"}

IsDigit(c) == c \in Digits

\* \s of the re module and the characters str.strip() removes.
IsSpace(c) == c \in {" ", "\t", "\n", "\r"}

LowerLetters ==
    <<"a","b","c","d","e","f","g","h","i","j","k","l","m",
      "n","o","p","q","r","s","t","u","v","w","x","y","z">>

UpperLetters ==
    <<"A","B","C","D","E","F","G","H","I","J","K","L","M",
      "N","O","P","Q","R","S","T","U","V","W","X","Y","Z">>

IsUpperLetter(c) == \E i \in 1..26 : UpperLetters[i] = c

UpperChar(c) ==
    IF \E i \in 1..26 : LowerLetters[i] = c
    THEN UpperLetters[CHOOSE i \in 1..26 : LowerLetters[i] = c]
    ELSE c

\* str.upper()
Upper(s) == [i \in 1..Len(s) |-> UpperChar(s[i])]

\* s[i:] with a 1-based first index
From(s, i) == SubSeq(s, i, Len(s))

\* s.startswith(p) at 1-based index i
MatchAt(s, i, p) ==
    /\ i >= 1
    /\ i + Len(p) - 1 <= Len(s)
    /\ \A k \in 1..Len(p) : s[i + k - 1] = p[k]

StartsWith(s, p) == MatchAt(s, 1, p)

\* p in s
Contains(s, p) == \E i \in 1..(Len(s) + 1) : MatchAt(s, i, p)

\* s.find(p) as a 1-based index, 0 when p does not occur
Find(s, p) ==
    IF Contains(s, p)
    THEN CHOOSE i \in 1..(Len(s) + 1) :
            MatchAt(s, i, p) /\ \A j \in 1..(i - 1) : ~MatchAt(s, j, p)
    ELSE 0

\* s.replace(old, new), old a non-empty str; i is s.find(old)
RECURSIVE Replace(_, _, _)
ReplaceAt(s, old, new, i) ==
    IF i = 0 THEN s
    ELSE SubSeq(s, 1, i - 1) \o new \o Replace(From(s, i + Len(old)), old, new)

Replace(s, old, new) == ReplaceAt(s, old, new, Find(s, old))

\* the parts of left and right when no separator lies between them: the
\* last part of left and the first of right are one part
Adjoin(left, right) ==
    SubSeq(left, 1, Len(left) - 1)
    \o <<left[Len(left)] \o right[1]>>
    \o SubSeq(right, 2, Len(right))

\* the parts of s[lo..hi], by halves
RECURSIVE SplitRange(_, _, _, _)
SplitRange(s, c, lo, hi) ==
    IF hi < lo THEN << <<>> >>
    ELSE IF lo = hi THEN (IF s[lo] = c THEN << <<>>, <<>> >> ELSE << <<s[lo]>> >>)
    ELSE Adjoin(SplitRange(s, c, lo, (lo + hi) \div 2),
                SplitRange(s, c, (lo + hi) \div 2 + 1, hi))

\* s.split(c) for a one-character separator c: never the empty list
Split(s, c) == SplitRange(s, c, 1, Len(s))

\* sep.join(parts[lo..hi]), by halves
RECURSIVE JoinRange(_, _, _, _)
JoinRange(parts, sep, lo, hi) ==
    IF hi < lo THEN <<>>
    ELSE IF lo = hi THEN parts[lo]
    ELSE JoinRange(parts, sep, lo, (lo + hi) \div 2) \o sep
         \o JoinRange(parts, sep, (lo + hi) \div 2 + 1, hi)

\* sep.join(parts)
Join(parts, sep) == JoinRange(parts, sep, 1, Len(parts))

\* number of leading whitespace characters
RECURSIVE LeadingSpaces(_)
LeadingSpaces(s) ==
    IF Len(s) > 0 /\ IsSpace(s[1]) THEN 1 + LeadingSpaces(Tail(s)) ELSE 0

RECURSIVE TrailingSpaces(_)
TrailingSpaces(s) ==
    IF Len(s) > 0 /\ IsSpace(s[Len(s)])
    THEN 1 + TrailingSpaces(SubSeq(s, 1, Len(s) - 1)) ELSE 0

\* s.strip()
Strip(s) ==
    LET a == LeadingSpaces(s)
    IN IF a = Len(s) THEN <<>>
       ELSE SubSeq(s, a + 1, Len(s) - TrailingSpaces(s))

\* number of leading decimal digits
RECURSIVE LeadingDigits(_)
LeadingDigits(s) ==
    IF Len(s) > 0 /\ IsDigit(s[1]) THEN 1 + LeadingDigits(Tail(s)) ELSE 0

DigitVal(c) == CHOOSE d \in 0..9 : ToString(d) = c

\* int(s) for a str of decimal digits
RECURSIVE IntOf(_)
IntOf(s) ==
    IF Len(s) = 0 THEN 0
    ELSE 10 * IntOf(SubSeq(s, 1, Len(s) - 1)) + DigitVal(s[Len(s)])

\* str(n) for an integer n >= 0
RECURSIVE StrOfNat(_)
StrOfNat(n) ==
    IF n < 10 THEN <<ToString(n)>>
    ELSE StrOfNat(n \div 10) \o <<ToString(n % 10)>>

(***************************************************************************)
(* validator.py: numbers.  A float parsed from "<digits>[.,]<digits>" is   *)
(* the pair <<m, e>> standing for m / 10^e, with no trailing zero in the   *)
(* fraction, so that equal floats are equal pairs; None is NoNum.          *)
(***************************************************************************)
NoNum == <<>>

RECURSIVE Pow10(_)
Pow10(e) == IF e = 0 THEN 1 ELSE 10 * Pow10(e - 1)

RECURSIVE NormNum(_, _)
NormNum(m, e) ==
    IF e > 0 /\ m % 10 = 0 THEN NormNum(m \div 10, e - 1) ELSE <<m, e>>

\* float(d.replace(',', '.')) for d matched by \d+(?:[.,]\d+)?
FloatOf(d) ==
    LET n == LeadingDigits(d)
    IN IF n = Len(d) THEN <<IntOf(d), 0>>
       ELSE NormNum(IntOf(SubSeq(d, 1, n) \o From(d, n + 2)), Len(d) - n - 1)

NumIsZero(v) == v # NoNum /\ v[1] = 0

\* float(v) == int(float(v))
NumIsIntegral(v) == v[2] = 0

RECURSIVE PadZeros(_, _)
PadZeros(s, n) == IF Len(s) >= n THEN s ELSE PadZeros(<<"0">> \o s, n)

\* str(int(v)) if float(v) == int(float(v)) else str(v)
NumStr(v) ==
    IF NumIsIntegral(v) THEN StrOfNat(v[1])
    ELSE StrOfNat(v[1] \div Pow10(v[2])) \o <<".">>
         \o PadZeros(StrOfNat(v[1] % Pow10(v[2])), v[2])

(***************************************************************************)
(* validator.py: parse_dimensions_from_string                              *)
(***************************************************************************)
\* \d+(?:[.,]\d+)? at index i, greedy: the index after the match, 0 if none.
\* What follows a number in the three patterns never starts with a digit,
\* '.' or ',', so only the longest match can be continued.
\* d: the digits at i, f: the digits after a '.' or ',' that follows them
NumEndOf(i, d, f) == IF d = 0 THEN 0 ELSE IF f > 0 THEN i + d + 1 + f ELSE i + d

FractionDigits(s, a) ==
    IF a < Len(s) /\ s[a] \in {".", ","} THEN LeadingDigits(From(s, a + 1)) ELSE 0

NumEnd(s, i) ==
    IF i < 1 \/ i > Len(s) THEN 0
    ELSE NumEndOf(i, LeadingDigits(From(s, i)),
                  FractionDigits(s, i + LeadingDigits(From(s, i))))

\* \s*[xX]\s* at index i: the index after the match, 0 if none;
\* j: the index after the leading whitespace
SepEndOf(s, j) ==
    IF j <= Len(s) /\ s[j] \in {"x", "X"}
    THEN j + 1 + LeadingSpaces(From(s, j + 1))
    ELSE 0

SepEnd(s, i) ==
    IF i < 1 \/ i > Len(s) THEN 0 ELSE SepEndOf(s, i + LeadingSpaces(From(s, i)))

\* [hH]\d+ at index i: the index after the match, 0 if none
TolEnd(s, i) ==
    IF i < 1 \/ i >= Len(s) THEN 0
    ELSE IF s[i] \in {"h", "H"} /\ LeadingDigits(From(s, i + 1)) > 0
         THEN i + 1 + LeadingDigits(From(s, i + 1))
         ELSE 0

\* the three patterns as the elements they match one after another
pattern_tolerance_3d == <<"num", "tol", "sep", "num", "sep", "num">>

pattern_3d == <<"num", "sep", "num", "sep", "num">>

pattern_2d == <<"num", "sep", "num">>

ElemEnd(s, i, elem) ==
    IF elem = "num" THEN NumEnd(s, i)
    ELSE IF elem = "sep" THEN SepEnd(s, i)
    ELSE TolEnd(s, i)

\* The pattern matched at index i: the <<first, last>> index of each number
\* it matched, in order; <<>> if it does not match there.
RECURSIVE MatchPattern(_, _, _)
MatchRest(s, i, pattern, e, rest) ==
    IF e = 0 \/ (Len(pattern) > 1 /\ rest = <<>>) THEN <<>>
    ELSE IF pattern[1] = "num" THEN << <<i, e - 1>> >> \o rest
    ELSE rest

MatchTail(s, i, pattern, e) ==
    MatchRest(s, i, pattern, e,
              IF e = 0 \/ Len(pattern) = 1 THEN <<>>
              ELSE MatchPattern(s, e, Tail(pattern)))

MatchPattern(s, i, pattern) == MatchTail(s, i, pattern, ElemEnd(s, i, pattern[1]))

Min(S) == CHOOSE x \in S : \A y \in S : x <= y

MinOrZero(S) == IF S = {} THEN 0 ELSE Min(S)

\* re.search: the groups of the match at the leftmost index that has one
SearchPattern(s, pattern) ==
    MatchPattern(s, MinOrZero({i \in 1..Len(s) : MatchPattern(s, i, pattern) # <<>>}),
                 pattern)

NoDims == [width |-> NoNum, height |-> NoNum, length |-> NoNum]

\* {"width": dims[0], "height": dims[1], "length": dims[2] or None}
DimsOf(s, groups) ==
    [width  |-> FloatOf(SubSeq(s, groups[1][1], groups[1][2])),
     height |-> FloatOf(SubSeq(s, groups[2][1], groups[2][2])),
     length |-> IF Len(groups) > 2
                THEN FloatOf(SubSeq(s, groups[3][1], groups[3][2])) ELSE NoNum]

\* a parser that tries the plain triple before the tolerance-aware one
PlainTripleFirst(s, tol3, plain3, pair) ==
    IF plain3 # <<>> THEN DimsOf(s, plain3)
    ELSE IF tol3 # <<>> THEN DimsOf(s, tol3)
    ELSE IF pair # <<>> THEN DimsOf(s, pair)
    ELSE NoDims

\* The tolerance-aware triple first, then the plain triple, then the pair.
\* NoDims stands for the None the code returns.
FirstMatch(s, tol3, plain3, pair) ==
    IF tol3 # <<>> THEN DimsOf(s, tol3)
    ELSE IF plain3 # <<>> THEN DimsOf(s, plain3)
    ELSE IF pair # <<>> THEN DimsOf(s, pair)
    ELSE NoDims

parse_dimensions_from_string(text) ==
    FirstMatch(text, SearchPattern(text, pattern_tolerance_3d),
               SearchPattern(text, pattern_3d), SearchPattern(text, pattern_2d))

(***************************************************************************)
(* validator.py: extract_features_from_string                              *)
(***************************************************************************)
IsDelim(c) == IsSpace(c) \/ c = "-"

\* (M\d+)(?:[\s\-]|$) with IGNORECASE, the code starting at index c:
\* the index after the whole match, 0 if none.  $ also matches before a
\* final newline, which [\s\-] has then already consumed.
MCodeEnd(s, c) ==
    IF c < 1 \/ c >= Len(s) THEN 0
    ELSE LET d == LeadingDigits(From(s, c + 1))
             e == c + 1 + d
         IN IF UpperChar(s[c]) # "M" \/ d = 0 THEN 0
            ELSE IF e = Len(s) + 1 THEN e
            ELSE IF IsDelim(s[e]) THEN e + 1
            ELSE 0

\* The M-code match that starts at index i: <<index of the code, index after
\* the match>>, <<0, 0>> if none.  ^ is tried before [\s\-].
MCodeAt(s, i) ==
    IF i = 1 /\ MCodeEnd(s, 1) # 0 THEN <<1, MCodeEnd(s, 1)>>
    ELSE IF i >= 1 /\ i <= Len(s) /\ IsDelim(s[i]) /\ MCodeEnd(s, i + 1) # 0
         THEN <<i + 1, MCodeEnd(s, i + 1)>>
         ELSE <<0, 0>>

\* re.findall: the codes of the successive non-overlapping matches, each
\* search resuming where the previous match ended; m is the leftmost match
RECURSIVE MCodesFrom(_, _)
MCodesNext(s, m) ==
    IF m[1] = 0 THEN <<>>
    ELSE <<SubSeq(s, m[1], m[1] + LeadingDigits(From(s, m[1] + 1)))>>
         \o MCodesFrom(s, m[2])

MCodesFrom(s, from) ==
    MCodesNext(s, MCodeAt(s, MinOrZero({i \in from..Len(s) : MCodeAt(s, i)[1] # 0})))

\* (H\d+)(?=[xX\s\-]|$), case-sensitive, the code starting at index c:
\* the index after the code (the lookahead consumes nothing), 0 if none
HTolEnd(s, c) ==
    IF c < 1 \/ c >= Len(s) THEN 0
    ELSE LET d == LeadingDigits(From(s, c + 1))
             e == c + 1 + d
         IN IF s[c] # "H" \/ d = 0 THEN 0
            ELSE IF e = Len(s) + 1 THEN e
            ELSE IF IsDelim(s[e]) \/ s[e] \in {"x", "X"} THEN e
            ELSE 0

\* the H-code match that starts at index i (0 < i): ^ or one of [\s\-\d]
HTolAt(s, i) ==
    IF i = 1 /\ HTolEnd(s, 1) # 0 THEN <<1, HTolEnd(s, 1)>>
    ELSE IF i >= 1 /\ i <= Len(s) /\ (IsDelim(s[i]) \/ IsDigit(s[i]))
            /\ HTolEnd(s, i + 1) # 0
         THEN <<i + 1, HTolEnd(s, i + 1)>>
         ELSE <<0, 0>>

RECURSIVE HTolsFrom(_, _)
HTolsNext(s, m) ==
    IF m[1] = 0 THEN <<>>
    ELSE <<SubSeq(s, m[1], m[2] - 1)>> \o HTolsFrom(s, m[2])

HTolsFrom(s, from) ==
    HTolsNext(s, HTolAt(s, MinOrZero({i \in from..Len(s) : HTolAt(s, i)[1] # 0})))

S_NZG == <<"N","Z","G">>

\* re.search(r'(?:^|[\s\-])NZG(?:[\s\-;,]|$)', text, re.IGNORECASE)
NZGIn(s, upper) ==
    \E c \in 1..Len(s) :
        /\ c = 1 \/ IsDelim(s[c - 1])
        /\ MatchAt(upper, c, S_NZG)
        /\ c + 3 = Len(s) + 1 \/ IsDelim(s[c + 3]) \/ s[c + 3] \in {";", ","}

HasNZG(s) == NZGIn(s, Upper(s))

HasSpec(features, spec) == \E k \in 1..Len(features) : features[k].spec = spec

\* for code in matches: append {feature_type, spec: code.upper()} unless a
\* feature with that spec is already in the list
RECURSIVE AddCodes(_, _, _)
AddCodes(features, codes, type) ==
    IF Len(codes) = 0 THEN features
    ELSE AddCodes(
            IF HasSpec(features, Upper(codes[1])) THEN features
            ELSE Append(features, [feature_type |-> type, spec |-> Upper(codes[1])]),
            Tail(codes), type)

AddNZG(features, text) ==
    IF HasNZG(text) /\ ~HasSpec(features, S_NZG)
    THEN Append(features, [feature_type |-> "coating", spec |-> S_NZG])
    ELSE features

extract_features_from_string(text) ==
    AddNZG(AddCodes(AddCodes(<<>>, MCodesFrom(text, 1), "thread"),
                    HTolsFrom(text, 1), "tolerance"),
           text)

(***************************************************************************)
(* validator.py: materials                                                 *)
(***************************************************************************)
S_C45 == <<"C","4","5">>
S_C45pC == <<"C","4","5","+","C">>
S_C45K == <<"C","4","5","K">>
S_42CrMo4 == <<"4","2","C","r","M","o","4">>
S_1_4301 == <<"1",".","4","3","0","1">>
S_1_4305 == <<"1",".","4","3","0","5">>
S_1_4571 == <<"1",".","4","5","7","1">>
S_1_4404 == <<"1",".","4","4","0","4">>
S_1_4057 == <<"1",".","4","0","5","7">>
S_P5K == <<"P","5","K">>
S_P5C == <<"P","5","C">>
S_C45C == <<"C","4","5","C">>
S_P85_C45K == <<"P","8","5","-","C","4","5","K">>
S_P885_C45C == <<"P","8","8","5","-","C","4","5","C">>
S_P885_C45pC == <<"P","8","8","5","-","C","4","5","+","C">>
S_P85_C45pC == <<"P","8","5","-","C","4","5","+","C">>
S_P85_C45C == <<"P","8","5","-","C","4","5","C">>
S_P885_ == <<"P","8","8","5","-">>
S_P85_ == <<"P","8","5","-">>
S_PF_ == <<"P","F","-">>
S_P5 == <<"P","5">>
S_P8 == <<"P","8">>

\* VALID_MATERIALS of the module and of calculate_confidence (the same list)
VALID_MATERIALS ==
    {S_C45, S_C45pC, S_C45K, S_42CrMo4, S_1_4301, S_1_4305, S_1_4571, S_1_4404, S_1_4057}

\* MATERIAL_FIX_MAP: <<bad value, correct value>>
MATERIAL_FIX_MAP ==
    {<<S_P5K, S_C45K>>,
     <<S_P5C, S_C45pC>>,
     <<S_C45C, S_C45pC>>,
     <<S_P85_C45K, S_C45K>>,
     <<S_P885_C45C, S_C45pC>>,
     <<S_P885_C45pC, S_C45pC>>,
     <<S_P85_C45pC, S_C45pC>>,
     <<S_P85_C45C, S_C45pC>>}

\* the prefixes fix_material strips, in the order it tries them
MaterialPrefixes == <<S_P885_, S_P85_, S_PF_, S_P5, S_P8>>

\* the first prefix that material starts with (compared in upper case) is
\* cut off; no prefix: material unchanged
StripPrefix(material) ==
    LET hits == {k \in 1..Len(MaterialPrefixes) :
                    StartsWith(Upper(material), Upper(MaterialPrefixes[k]))}
    IN IF hits = {} THEN material
       ELSE From(material,
                 Len(MaterialPrefixes[CHOOSE k \in hits : \A j \in hits : k <= j]) + 1)

\* re.match(r'^C45[A-Z]?$', cleaned, re.IGNORECASE); $ also matches before a
\* final newline
IsC45Family(cleaned) ==
    LET u == Upper(cleaned)
        body == IF Len(u) > 0 /\ u[Len(u)] = "\n" THEN SubSeq(u, 1, Len(u) - 1) ELSE u
    IN \/ body = S_C45
       \/ Len(body) = 4 /\ StartsWith(body, S_C45) /\ IsUpperLetter(body[4])

\* steps 3 to 5 of fix_material, cleaned being material without its prefix
FixCleaned(material, cleaned) ==
    IF cleaned \in VALID_MATERIALS THEN cleaned
    ELSE IF IsC45Family(cleaned) /\ Upper(cleaned) = S_C45C THEN S_C45pC
    ELSE IF IsC45Family(cleaned) /\ Upper(cleaned) = S_C45K THEN S_C45K
    ELSE material

fix_material(material) ==
    IF ~Truthy(material) THEN material
    ELSE IF \E p \in MATERIAL_FIX_MAP : p[1] = material
    THEN (CHOOSE p \in MATERIAL_FIX_MAP : p[1] = material)[2]
    ELSE IF material \in VALID_MATERIALS THEN material
    ELSE FixCleaned(material, StripPrefix(material))

(***************************************************************************)
(* Line items.  A candidate item is what the extractor's JSON holds:       *)
(*   pos, article_name, quantity, unit, delivery_date: str or NONE         *)
(*   config.material_id, standard, form, material:     str or NONE         *)
(*   config.dimensions: width/height/length, each a number or NoNum        *)
(*       (the code reads None, {} and all-null dimensions alike)           *)
(*   config.features: a list of {feature_type, spec}, or NullFeatures for  *)
(*       a JSON null                                                       *)
(* metadata is the engine's bookkeeping; a key the code has not written is *)
(* NONE / FALSE / NoScore / <<>> / "unset".                                *)
(***************************************************************************)
NullFeatures == <<[feature_type |-> "null", spec |-> NONE]>>

\* rule_confidence_score is kept in tenths; NoScore: the key is absent
NoScore == 0 - 1

EmptyMeta ==
    [raw_text_snippet        |-> NONE,
     snippet_is_fallback     |-> FALSE,
     rule_confidence_score   |-> NoScore,
     material_auto_corrected |-> NONE,
     verification_result     |-> <<>>,
     status                  |-> "unset"]

(***************************************************************************)
(* validator.py: calculate_confidence                                      *)
(***************************************************************************)
S_Form == <<"F","o","r","m">>

\* any(v is not None and v != 0 for v in dims_in_json.values())
HasAnyDim(dims) ==
    \E k \in {"width", "height", "length"} : dims[k] # NoNum /\ ~NumIsZero(dims[k])

\* the text features whose spec no feature of the item has
RECURSIVE MissedFeatures(_, _)
MissedFeatures(text_features, json_features) ==
    IF Len(text_features) = 0 THEN 0
    ELSE (IF HasSpec(json_features, text_features[1].spec) THEN 0 ELSE 1)
         + MissedFeatures(Tail(text_features), json_features)

\* not all(p in VALID_MATERIALS for p in [m.strip() for m in mat.split("/")])
InvalidMaterial(mat) ==
    LET parts == Split(mat, "/")
    IN \E k \in 1..Len(parts) : Strip(parts[k]) \notin VALID_MATERIALS

\* the leading characters of s that are digits or '.'
RECURSIVE NumPart(_)
NumPart(s) ==
    IF Len(s) > 0 /\ (IsDigit(s[1]) \/ s[1] = ".")
    THEN <<s[1]>> \o NumPart(Tail(s)) ELSE <<>>

\* float(num_part) parses and is not within [1, 21].  float() raises on a
\* num_part with two dots or without a digit; the code ignores that.
MCodeOutOfRange(num_part) ==
    LET dots   == {k \in 1..Len(num_part) : num_part[k] = "."}
        digits == {k \in 1..Len(num_part) : IsDigit(num_part[k])}
        dot    == IF dots = {} THEN Len(num_part) + 1 ELSE Min(dots)
        whole  == IntOf(SubSeq(num_part, 1, dot - 1))
        frac   == {k \in digits : k > dot /\ num_part[k] # "0"}
    IN /\ Cardinality(dots) <= 1
       /\ digits # {}
       /\ whole < 1 \/ whole > 21 \/ (whole = 21 /\ frac # {})

\* the features with an M-code outside M1..M21
RECURSIVE OutOfRangeCodes(_)
OutOfRangeCodes(features) ==
    IF Len(features) = 0 THEN 0
    ELSE LET spec == Upper(Strip(features[1].spec))
         IN (IF Len(spec) > 0 /\ spec[1] = "M" /\ NumPart(Tail(spec)) # <<>>
                /\ MCodeOutOfRange(NumPart(Tail(spec)))
             THEN 1 ELSE 0)
            + OutOfRangeCodes(Tail(features))

\* calculate_confidence raises: a null feature list is iterated, or
\* .strip() is called on a null spec
ConfidenceRaises(item, raw_text_snippet) ==
    /\ Truthy(raw_text_snippet)
    /\ \/ item.config.features = NullFeatures
       \/ \E k \in 1..Len(item.config.features) : item.config.features[k].spec = NONE

\* 1. and 1b.: no dimension in the item (-0.4), and the text has some (-0.3)
DimPenalty(config, raw_text_snippet) ==
    IF HasAnyDim(config.dimensions) THEN 0
    ELSE IF parse_dimensions_from_string(raw_text_snippet) # NoDims THEN 7
    ELSE 4

\* 3.: a one-letter form that the text (without blanks) has as "<form>="
\* (-0.4), and once more for form B with "B=" in the text (-0.4)
FormPenalty(form, raw_text_snippet) ==
    (IF Truthy(form) /\ Len(form) = 1
        /\ Contains(Replace(raw_text_snippet, <<" ">>, <<>>), form \o <<"=">>)
     THEN 4 ELSE 0)
    + (IF form = <<"B">> /\ Contains(raw_text_snippet, <<"B", "=">>) THEN 4 ELSE 0)

\* 4.: the text says "Form" and the item has none (-0.1)
FormKeywordPenalty(form, raw_text_snippet) ==
    IF Contains(raw_text_snippet, S_Form) /\ ~Truthy(form) THEN 1 ELSE 0

MaterialPenalty(material) ==
    IF Truthy(material) /\ InvalidMaterial(material) THEN 3 ELSE 0

Clip(score) == IF score < 0 THEN 0 ELSE score

\* The score in tenths.  The code subtracts 0.4, 0.3, 0.2 and 0.1 from 1.0
\* in floats and returns max(0.0, score).
calculate_confidence(item, raw_text_snippet) ==
    IF ~Truthy(raw_text_snippet) THEN 5
    ELSE Clip(10 - DimPenalty(item.config, raw_text_snippet)
                 - 2 * MissedFeatures(extract_features_from_string(raw_text_snippet),
                                      item.config.features)
                 - FormPenalty(item.config.form, raw_text_snippet)
                 - MaterialPenalty(item.config.material)
                 - 3 * OutOfRangeCodes(item.config.features)
                 - FormKeywordPenalty(item.config.form, raw_text_snippet))

(***************************************************************************)
(* validator.py: validate_and_fix_items, one pass of its loop per item     *)
(***************************************************************************)
\* the lines after a position anchor that belong to its window (idx + 6)
PosWindow == 6

\* the lines before a material-id line that belong to its window (idx - 5)
MatIdWindow == 5

\* a material_id is searched for only if it is longer than this
MinMatIdLen == 5

\* a token of article_name is significant if it is longer than this
MinTokenLen == 3

\* native_text is the source only if it is longer than this
MinNativeLen == 20

\* the score (tenths) of a fallback snippet is capped at 0.6
FallbackCap == 6

\* str(item.get("pos", "")).strip()
PosStr(item) == Strip(IF item.pos = NONE THEN <<"N","o","n","e">> ELSE item.pos)

\* re.match(rf"^\s*{re.escape(pos)}\s+", line), for a stripped non-empty pos
PosAnchor(line, pos) ==
    LET k == LeadingSpaces(line)
    IN /\ MatchAt(line, k + 1, pos)
       /\ k + Len(pos) + 1 <= Len(line)
       /\ IsSpace(line[k + Len(pos) + 1])

\* tier 1: the first line that starts with pos, and the lines below it
PosSnippet(item, source_lines) ==
    LET pos  == PosStr(item)
        hits == {i \in 1..Len(source_lines) : PosAnchor(source_lines[i], pos)}
    IN IF pos = <<>> \/ hits = {} THEN <<>>
       ELSE LET idx == Min(hits)
                end == IF Len(source_lines) < idx + PosWindow - 1
                       THEN Len(source_lines) ELSE idx + PosWindow - 1
            IN Join(SubSeq(source_lines, idx, end), <<"\n">>)

\* tier 2: the first line that holds material_id, and the lines above it
MatIdSnippet(item, source_lines) ==
    LET mat_id == item.config.material_id
        hits   == {i \in 1..Len(source_lines) : Contains(source_lines[i], mat_id)}
    IN IF ~Truthy(mat_id) \/ Len(mat_id) <= MinMatIdLen \/ hits = {} THEN <<>>
       ELSE LET idx   == Min(hits)
                start == IF idx - MatIdWindow < 1 THEN 1 ELSE idx - MatIdWindow
            IN Join(SubSeq(source_lines, start, idx), <<"\n">>)

\* [p for p in article_name.split('-') if len(p) > 3]
RECURSIVE SignificantParts(_)
SignificantParts(parts) ==
    IF Len(parts) = 0 THEN <<>>
    ELSE (IF Len(parts[1]) > MinTokenLen THEN <<parts[1]>> ELSE <<>>)
         \o SignificantParts(Tail(parts))

\* tier 3: the last line assigned by the loop, which breaks at the first
\* line that holds every significant token of article_name (two at least)
TokenSnippet(item, source_lines) ==
    LET sig  == SignificantParts(Split(item.article_name, "-"))
        hits == {i \in 1..Len(source_lines) :
                    \A k \in 1..Len(sig) : Contains(source_lines[i], sig[k])}
    IN IF ~Truthy(item.article_name) \/ Len(sig) < 2 \/ hits = {} THEN <<>>
       ELSE source_lines[Min(hits)]

\* tier 3 runs only while target_line is still empty
TokenTier(item, source_lines, target) ==
    IF target # <<>> THEN target ELSE TokenSnippet(item, source_lines)

\* a locator that tries the material_id before the position
MatIdFirst(item, source_lines, target) ==
    TokenTier(item, source_lines,
              IF MatIdSnippet(item, source_lines) # <<>>
              THEN MatIdSnippet(item, source_lines) ELSE target)

\* tier 2 runs only while target_line is still empty
MatIdTier(item, source_lines, target) ==
    TokenTier(item, source_lines,
              IF target # <<>> THEN target ELSE MatIdSnippet(item, source_lines))

\* target_line after the three tiers
target_line(item, source_lines) ==
    MatIdTier(item, source_lines, PosSnippet(item, source_lines))

used_fallback(item, target) ==
    target = <<>> /\ Truthy(item.article_name)

\* a locator that does not fall back on article_name
TargetOnly(item, target) == target

text_to_scan(item, target) ==
    IF target # <<>> THEN target
    ELSE IF Truthy(item.article_name) THEN item.article_name
    ELSE <<>>

\* 2. config["dimensions"] = strict_dims if the text holds a triple with a
\* non-zero length
SetDimensions(config, strict_dims) ==
    IF strict_dims # NoDims /\ strict_dims.length # NoNum
       /\ ~NumIsZero(strict_dims.length)
    THEN [config EXCEPT !.dimensions = strict_dims]
    ELSE config

FixDimensions(config, text) ==
    SetDimensions(config, parse_dimensions_from_string(text))

\* 3. a text feature is appended unless a feature with its spec is there
RECURSIVE AppendMissing(_, _)
AppendMissing(current_features, strict_features) ==
    IF Len(strict_features) = 0 THEN current_features
    ELSE AppendMissing(
            IF HasSpec(current_features, strict_features[1].spec)
            THEN current_features
            ELSE Append(current_features, strict_features[1]),
            Tail(strict_features))

\* 3. raises: a null feature list is searched for the first text feature
FixFeaturesRaises(config, strict_features) ==
    config.features = NullFeatures /\ strict_features # <<>>

FixFeatures(config, strict_features) ==
    IF config.features = NullFeatures THEN config
    ELSE [config EXCEPT !.features = AppendMissing(@, strict_features)]

\* 3b. a known bad material value is replaced
FixMaterial(config, fixed_material) ==
    IF Truthy(config.material)
    THEN [config EXCEPT !.material = fixed_material]
    ELSE config

S_arrow == <<" ", "-", ">", " ">>

\* metadata.material_auto_corrected after 3b
MaterialAudit(raw_material, fixed_material) ==
    IF Truthy(raw_material) /\ fixed_material # raw_material
    THEN raw_material \o S_arrow \o fixed_material
    ELSE NONE

\* the forms 3c looks for, in its order
FormCandidates == << <<"A","S">>, <<"A","B">>, <<"A">>, <<"B">>, <<"C">> >>

\* 3c. the first candidate that occurs as -F- or leads the text as F-
FixForm(config, text) ==
    LET hits == {k \in 1..Len(FormCandidates) :
                    \/ Contains(text, <<"-">> \o FormCandidates[k] \o <<"-">>)
                    \/ StartsWith(text, FormCandidates[k] \o <<"-">>)}
    IN IF ~Truthy(config.form) /\ hits # {}
       THEN [config EXCEPT !.form = FormCandidates[Min(hits)]]
       ELSE config

\* VALID_MATERIALS of 3d, in the order the loop tries them
BackfillMaterials ==
    <<S_C45pC, S_C45K, S_C45, S_42CrMo4, S_1_4301, S_1_4305, S_1_4571,
      S_1_4404, S_1_4057>>

\* 3d. the first whitelist material the text holds, else a C45 misread
FixMissingMaterial(config, text) ==
    LET hits == {k \in 1..Len(BackfillMaterials) : Contains(text, BackfillMaterials[k])}
        text_upper == Upper(text)
    IN IF Truthy(config.material) THEN config
       ELSE IF hits # {} THEN [config EXCEPT !.material = BackfillMaterials[Min(hits)]]
       ELSE IF Contains(text_upper, S_C45C) \/ Contains(text_upper, S_C45pC)
       THEN [config EXCEPT !.material = S_C45pC]
       ELSE IF Contains(text_upper, S_C45K) THEN [config EXCEPT !.material = S_C45K]
       ELSE config

\* "X".join of the dimensions that are not None
DimStr(dims) ==
    LET part(k) == IF dims[k] = NoNum THEN <<>> ELSE <<NumStr(dims[k])>>
    IN Join(part("width") \o part("height") \o part("length"), <<"X">>)

\* the specs of the features that have one
RECURSIVE Specs(_)
Specs(features) ==
    IF Len(features) = 0 THEN <<>>
    ELSE (IF Truthy(features[1].spec) THEN <<features[1].spec>> ELSE <<>>)
         \o Specs(Tail(features))

FeatStr(features) ==
    IF features = NullFeatures THEN <<>> ELSE Join(Specs(features), <<"-">>)

\* ["PF", form, dim_str, material, feat_str] without the empty ones
NameParts(config) ==
    LET opt(s) == IF Truthy(s) THEN <<s>> ELSE <<>>
    IN << <<"P","F">> >> \o opt(config.form) \o opt(DimStr(config.dimensions))
       \o opt(config.material) \o opt(FeatStr(config.features))

\* 3e. the constructed name replaces article_name if it has two parts
\* besides PF, or if article_name is empty
UseName(article_name, name_parts) ==
    IF Len(name_parts) >= 3 \/ ~Truthy(article_name)
    THEN Join(name_parts, <<"-">>)
    ELSE article_name

FixArticleName(article_name, config) == UseName(article_name, NameParts(config))

\* 4. the score is stored; a fallback snippet caps it and sets the status
StoreConfidence(item, confidence, fallback) ==
    IF fallback
    THEN [item EXCEPT
            !.metadata.rule_confidence_score =
                IF confidence < FallbackCap THEN confidence ELSE FallbackCap,
            !.metadata.status = "raw_line_not_found"]
    ELSE [item EXCEPT !.metadata.rule_confidence_score = confidence]

\* 4. calculate_confidence raises and the item keeps what 2. to 3e. wrote,
\* or the score is stored
ScoreItem(item, text, fallback) ==
    IF ConfidenceRaises(item, text) THEN item
    ELSE StoreConfidence(item, calculate_confidence(item, text), fallback)

\* 3c. to 3e.
FixRest(item, config, text, fallback) ==
    ScoreItem([item EXCEPT !.config = config,
                           !.article_name = FixArticleName(@, config)],
              text, fallback)

\* 3b. to 3d.
FixMaterials(item, config, fixed_material, text, fallback) ==
    FixRest([item EXCEPT !.metadata.material_auto_corrected =
                            MaterialAudit(config.material, fixed_material)],
            FixMissingMaterial(FixForm(FixMaterial(config, fixed_material), text), text),
            text, fallback)

\* 3.: the exception leaves the item with the dimensions of 2.
FixFromFeatures(item, config, strict_features, text, fallback) ==
    IF FixFeaturesRaises(config, strict_features)
    THEN [item EXCEPT !.config = config]
    ELSE FixMaterials(item, FixFeatures(config, strict_features),
                      fix_material(config.material), text, fallback)

\* the snippet is stored; without one the score is 0.5 and the pass ends
FixItem(item, text, fallback) ==
    IF text = <<>>
    THEN [item EXCEPT !.metadata.rule_confidence_score = 5]
    ELSE FixFromFeatures(item, FixDimensions(item.config, text),
                         extract_features_from_string(text), text, fallback)

StoreSnippet(item, text, fallback) ==
    FixItem([item EXCEPT !.metadata = [EmptyMeta EXCEPT
                                          !.raw_text_snippet = text,
                                          !.snippet_is_fallback = fallback]],
            text, fallback)

ScanItem(item, target) ==
    StoreSnippet(item, text_to_scan(item, target), used_fallback(item, target))

\* One pass of the loop body.  An exception leaves the item as the
\* statements before it have made it (the handler only logs and continues).
validate_item(item, source_lines) ==
    ScanItem(item, target_line(item, source_lines))

\* the OCR text if it is longer than 20 characters, else the native text
OcrFirst(native_text, ocr_text) ==
    IF Truthy(ocr_text) /\ Len(ocr_text) > MinNativeLen
    THEN ocr_text ELSE native_text

\* source_text = native_text if native_text and len(native_text) > 20
\*               else ocr_text
source_text(native_text, ocr_text) ==
    IF Truthy(native_text) /\ Len(native_text) > MinNativeLen
    THEN native_text ELSE ocr_text

validate_and_fix_items(items, native_text, ocr_text) ==
    LET source_lines == Split(source_text(native_text, ocr_text), "\n")
    IN [k \in 1..Len(items) |-> validate_item(items[k], source_lines)]

(***************************************************************************)
(* The sample documents and the candidate items the extractor may return   *)
(***************************************************************************)
\* DOMAIN_BEGIN
S_MatId == <<"1","0","0","-","0","1","3","-","0","0","0",".","0","1","-","0","1">>

\* 1 PF-A-8X7X20-C45+C
Line_pos1 ==
    <<"1"," ","P","F","-","A","-","8","X","7","X","2","0","-","C","4","5","+","C">>
\* 2 Passfeder Form B=10 M6
Line_pos2 ==
    <<"2"," ","P","a","s","s","f","e","d","e","r"," ","F","o","r","m"," ","B","=","1","0"," ","M","6">>
\* Art 100-013-000.01-01 AS-8H9X7X36 P5K
Line_matid ==
    <<"A","r","t"," ","1","0","0","-","0","1","3","-","0","0","0",".","0","1","-","0","1"," ","A","S","-","8","H","9","X","7","X","3","6"," ","P","5","K">>
\* 1 Passfeder A 8x7x20 C45K M8
Line_native ==
    <<"1"," ","P","a","s","s","f","e","d","e","r"," ","A"," ","8","x","7","x","2","0"," ","C","4","5","K"," ","M","8">>

Text1 == Join(<<Line_pos1, Line_pos2>>, <<"\n">>)
Text2 == Join(<<Line_pos2, Line_matid>>, <<"\n">>)
Native1 == Join(<<Line_native>>, <<"\n">>)

\* pos 1, agreeing with its line
Cand_clean ==
    [pos |-> <<"1">>,
      article_name |-> <<"P","F","-","A","-","8","X","7","X","2","0","-","C","4","5","+","C">>,
      quantity |-> <<"1","0","0">>,
      unit |-> <<"p","c","s">>,
      delivery_date |-> NONE,
      config |->
        [material_id |-> NONE,
         standard |-> <<"D","I","N"," ","6","8","8","5">>,
         form |-> <<"A">>,
         material |-> <<"C","4","5","+","C">>,
         dimensions |-> [width |-> <<8, 0>>, height |-> <<7, 0>>, length |-> <<20, 0>>],
         features |-> <<>>],
      metadata |-> EmptyMeta]

\* pos 2, without a form although the text says Form
Cand_noform ==
    [pos |-> <<"2">>,
      article_name |-> <<"P","F","-","1","0","X","8","X","1","6">>,
      quantity |-> <<"1","0","0">>,
      unit |-> <<"p","c","s">>,
      delivery_date |-> NONE,
      config |->
        [material_id |-> NONE,
         standard |-> NONE,
         form |-> NONE,
         material |-> <<"C","4","5","K">>,
         dimensions |-> [width |-> <<10, 0>>, height |-> <<8, 0>>, length |-> <<16, 0>>],
         features |-> <<>>],
      metadata |-> EmptyMeta]

\* pos 2, the dimension label B taken for the form, no dimensions
Cand_formB ==
    [pos |-> <<"2">>,
      article_name |-> <<"P","F","-","B">>,
      quantity |-> <<"1","0","0">>,
      unit |-> <<"p","c","s">>,
      delivery_date |-> NONE,
      config |->
        [material_id |-> NONE,
         standard |-> NONE,
         form |-> <<"B">>,
         material |-> <<"S","3","5","5">>,
         dimensions |-> [width |-> NoNum, height |-> NoNum, length |-> NoNum],
         features |-> <<>>],
      metadata |-> EmptyMeta]

\* pos 1, with a material the whitelist does not have
Cand_badmat ==
    [pos |-> <<"1">>,
      article_name |-> <<"P","F","-","A","-","8","X","7","X","2","0","-","S","3","5","5">>,
      quantity |-> <<"1","0","0">>,
      unit |-> <<"p","c","s">>,
      delivery_date |-> NONE,
      config |->
        [material_id |-> NONE,
         standard |-> NONE,
         form |-> <<"A">>,
         material |-> <<"S","3","5","5">>,
         dimensions |-> [width |-> <<8, 0>>, height |-> <<7, 0>>, length |-> <<20, 0>>],
         features |-> <<>>],
      metadata |-> EmptyMeta]

\* nothing of the item is in the text: its snippet is its article_name
Cand_fallback ==
    [pos |-> <<"7">>,
      article_name |-> <<"P","F","-","B","-","5","X","5","X","1","0">>,
      quantity |-> <<"1","0","0">>,
      unit |-> <<"p","c","s">>,
      delivery_date |-> NONE,
      config |->
        [material_id |-> NONE,
         standard |-> NONE,
         form |-> <<"B">>,
         material |-> NONE,
         dimensions |-> [width |-> <<5, 0>>, height |-> <<5, 0>>, length |-> <<10, 0>>],
         features |-> <<>>],
      metadata |-> EmptyMeta]

\* neither a line nor an article_name
Cand_nosnippet ==
    [pos |-> <<"7">>,
      article_name |-> NONE,
      quantity |-> <<"1","0","0">>,
      unit |-> <<"p","c","s">>,
      delivery_date |-> NONE,
      config |->
        [material_id |-> NONE,
         standard |-> NONE,
         form |-> <<"B">>,
         material |-> NONE,
         dimensions |-> [width |-> NoNum, height |-> NoNum, length |-> NoNum],
         features |-> <<>>],
      metadata |-> EmptyMeta]

\* no pos; found by its material_id (Text2)
Cand_matid ==
    [pos |-> NONE,
      article_name |-> NONE,
      quantity |-> <<"1","0","0">>,
      unit |-> <<"p","c","s">>,
      delivery_date |-> NONE,
      config |->
        [material_id |-> <<"1","0","0","-","0","1","3","-","0","0","0",".","0","1","-","0","1">>,
         standard |-> NONE,
         form |-> NONE,
         material |-> <<"P","5","K">>,
         dimensions |-> [width |-> NoNum, height |-> NoNum, length |-> NoNum],
         features |-> <<[feature_type |-> "thread", spec |-> <<"M","3","0">>]>>],
      metadata |-> EmptyMeta]

\* found by the tokens Passfeder and Form of its article_name
Cand_tokens ==
    [pos |-> <<"9">>,
      article_name |-> <<"P","a","s","s","f","e","d","e","r","-","F","o","r","m","-","E">>,
      quantity |-> <<"1","0","0">>,
      unit |-> <<"p","c","s">>,
      delivery_date |-> NONE,
      config |->
        [material_id |-> NONE,
         standard |-> NONE,
         form |-> <<"E">>,
         material |-> NONE,
         dimensions |-> [width |-> <<10, 0>>, height |-> <<8, 0>>, length |-> NoNum],
         features |-> <<>>],
      metadata |-> EmptyMeta]

\* pos 1, "features": null
Cand_nullfeat ==
    [pos |-> <<"1">>,
      article_name |-> <<"P","F","-","A","-","8","X","7","X","2","0">>,
      quantity |-> <<"1","0","0">>,
      unit |-> <<"p","c","s">>,
      delivery_date |-> NONE,
      config |->
        [material_id |-> NONE,
         standard |-> NONE,
         form |-> <<"A">>,
         material |-> NONE,
         dimensions |-> [width |-> <<8, 0>>, height |-> <<7, 0>>, length |-> <<20, 0>>],
         features |-> NullFeatures],
      metadata |-> EmptyMeta]

\* "features": null, and no line of its own
Cand_nullfeat_fb ==
    [pos |-> <<"7">>,
      article_name |-> <<"P","F","-","C","-","5","X","5","X","1","0">>,
      quantity |-> <<"1","0","0">>,
      unit |-> <<"p","c","s">>,
      delivery_date |-> NONE,
      config |->
        [material_id |-> NONE,
         standard |-> NONE,
         form |-> <<"C">>,
         material |-> NONE,
         dimensions |-> [width |-> <<5, 0>>, height |-> <<5, 0>>, length |-> <<10, 0>>],
         features |-> NullFeatures],
      metadata |-> EmptyMeta]

\* DOMAIN_END

Candidates ==
    {Cand_clean, Cand_noform, Cand_formB, Cand_badmat, Cand_fallback,
     Cand_nosnippet, Cand_matid, Cand_tokens, Cand_nullfeat, Cand_nullfeat_fb}

\* the longest requested_items list the extractor returns
MaxItems == 2

CandidateLists == UNION {[1..n -> Candidates] : n \in 0..MaxItems}

\* <<text, native_text>> of a call of extract_data_from_text
Inputs == {<<Text1, NONE>>, <<Text2, NONE>>, <<Text1, Native1>>, <<<<>>, NONE>>}

\* A long document: the line of pos 1 first, the line of pos 2 as line 60,
\* an empty line as line blank_at (none if 0), "-" elsewhere
DocLine(i, blank_at) ==
    IF i = 1 THEN Line_pos1
    ELSE IF i = 60 THEN Line_pos2
    ELSE IF i = blank_at THEN <<>>
    ELSE <<"-">>

Doc(n, blank_at) == Join([i \in 1..n |-> DocLine(i, blank_at)], <<"\n">>)

\* <<text, native_text>> of a call of extract_data_from_text_async
AsyncInputs ==
    {<<Doc(99, 0), NONE>>, <<Doc(100, 0), NONE>>, <<Doc(101, 54), Native1>>,
     <<Text1, Native1>>, <<<<>>, NONE>>}

\* what the extractor returns for a partition: items that differ in pos
Cand_pos10 == [Cand_clean EXCEPT !.pos = <<"1","0">>]
Cand_pos1_5 == [Cand_clean EXCEPT !.pos = <<"1",".","5">>]
Cand_posx == [Cand_clean EXCEPT !.pos = <<"x">>]

ChunkCandidates == {Cand_noform, Cand_formB, Cand_pos10, Cand_pos1_5, Cand_posx}

\* the longest requested_items list the extractor returns for a partition
MaxChunkItems == 2

ChunkLists == UNION {[1..n -> ChunkCandidates] : n \in 0..MaxChunkItems}

(***************************************************************************)
(* verifier.py: what Verifier.verify_item returns.  A result is            *)
(*   is_dict:    the reply parsed to a JSON object                         *)
(*   is_correct: "true", "false" or "absent"                               *)
(*   correction: truthy (a non-empty object), the keys of its "config",    *)
(*               the values of those keys, whether it has the key          *)
(*               "article_name", and the value of that key                 *)
(***************************************************************************)
ConfigKeys == {"material_id", "standard", "form", "material", "dimensions", "features"}

NoConfig ==
    [material_id |-> NONE, standard |-> NONE, form |-> NONE, material |-> NONE,
     dimensions |-> NoDims, features |-> <<>>]

\* no correction: the key is absent, null or {}
NoCorrection ==
    [truthy |-> FALSE, config_keys |-> {}, config |-> NoConfig,
     has_article_name |-> FALSE, article_name |-> NONE]

\* {"config": {"form": "A"}}
Corr_form ==
    [truthy |-> TRUE, config_keys |-> {"form"},
     config |-> [NoConfig EXCEPT !.form = <<"A">>],
     has_article_name |-> FALSE, article_name |-> NONE]

\* {"article_name": "PF-KORR"}
Corr_name ==
    [truthy |-> TRUE, config_keys |-> {}, config |-> NoConfig,
     has_article_name |-> TRUE, article_name |-> <<"P","F","-","K","O","R","R">>]

\* {"config": {"form": null, "material": "C45+C",
\*             "dimensions": {"width": 10, "height": 8, "length": 16}},
\*  "article_name": "PF-10X8X16-C45+C"}
Corr_both ==
    [truthy |-> TRUE, config_keys |-> {"form", "material", "dimensions"},
     config |-> [NoConfig EXCEPT
                    !.material = S_C45pC,
                    !.dimensions = [width |-> <<10, 0>>, height |-> <<8, 0>>,
                                    length |-> <<16, 0>>]],
     has_article_name |-> TRUE,
     article_name |-> <<"P","F","-","1","0","X","8","X","1","6","-","C","4","5","+","C">>]

Result(is_correct, correction, reason) ==
    [is_dict |-> TRUE, is_correct |-> is_correct, correction |-> correction,
     reason |-> reason]

\* {"is_correct": True, "confidence_score": 0.5, "reason": "No API Key"}
NoKeyResult == Result("true", NoCorrection, "No API Key")

\* {"is_correct": True, "confidence_score": 0.5, "reason": "Verifier Error: ..."}
FailOpenResult == Result("true", NoCorrection, "Verifier Error")

\* a reply that is JSON but no object (a list, a string, a number)
NotADict ==
    [is_dict |-> FALSE, is_correct |-> "absent", correction |-> NoCorrection,
     reason |-> "reply"]

\* the replies of the verifier model that parse as JSON
VerifierReplies ==
    {Result("true", NoCorrection, "reply"),
     Result("absent", NoCorrection, "reply"),
     Result("true", Corr_form, "reply"),
     Result("false", NoCorrection, "reply"),
     Result("false", Corr_form, "reply"),
     Result("false", Corr_name, "reply"),
     Result("false", Corr_both, "reply"),
     NotADict}

\* What the request to the verifier model does: "error" is every exception
\* inside the try block (timeout, connection error, HTTP status, a reply
\* that is not JSON or lacks choices[0].message.content).
VerifierOutcomes ==
    {[kind |-> "error", reply |-> FailOpenResult]}
    \cup {[kind |-> "reply", reply |-> r] : r \in VerifierReplies}

\* verify_item is not called
NoCall == [kind |-> "none", reply |-> NotADict]

\* Verifier.verify_item: no request without a key; an exception fails open
verify_item(has_key, outcome) ==
    IF ~has_key THEN NoKeyResult
    ELSE IF outcome.kind = "error" THEN FailOpenResult
    ELSE outcome.reply

(***************************************************************************)
(* ai.py: the escalation loop of extract_data_from_text, one item          *)
(***************************************************************************)
\* rule_confidence_score below this (0.9, in tenths) escalates
EscalationThreshold == 9

\* LowConfidence with <= for <: a score of 0.9 escalates as well
LowConfidenceInclusive(item) ==
    item.metadata.rule_confidence_score # NoScore
    /\ item.metadata.rule_confidence_score <= EscalationThreshold

\* metadata.get("rule_confidence_score", 1.0) < 0.9
LowConfidence(item) ==
    item.metadata.rule_confidence_score # NoScore
    /\ item.metadata.rule_confidence_score < EscalationThreshold

\* the item is skipped because its snippet is its own article_name
SkippedAsFallback(item) == LowConfidence(item) /\ item.metadata.snippet_is_fallback

\* verifier.verify_item(raw_snippet, item) is called
NeedsVerifier(item) ==
    /\ LowConfidence(item)
    /\ ~item.metadata.snippet_is_fallback
    /\ Truthy(item.metadata.raw_text_snippet)

\* what the loop body meets for an item: an outcome of the request if it
\* calls verify_item
OutcomesFor(item) == IF NeedsVerifier(item) THEN VerifierOutcomes ELSE {NoCall}

\* MergeConfig as an assignment: item["config"] = correction["config"]
MergeConfigReplacing(config, correction) ==
    IF correction.config_keys = {} THEN config ELSE correction.config

\* item["config"].update(correction["config"])
MergeConfig(config, correction) ==
    [k \in DOMAIN config |->
        IF k \in correction.config_keys THEN correction.config[k] ELSE config[k]]

\* if "article_name" in correction: item["article_name"] = ...
MergeName(article_name, correction) ==
    IF correction.has_article_name THEN correction.article_name ELSE article_name

\* StatusAfter with the two statuses of an incorrect item exchanged
StatusAfterExchanged(status, result) ==
    IF ~result.is_dict THEN status
    ELSE IF result.is_correct # "false" THEN "verified_correct"
    ELSE IF result.correction.truthy THEN "flagged_by_verifier"
    ELSE "auto_corrected_by_verifier"

\* the status the result gives; a reply that is no object raises on .get
\* and the handler leaves the status as it is
StatusAfter(status, result) ==
    IF ~result.is_dict THEN status
    ELSE IF result.is_correct # "false" THEN "verified_correct"
    ELSE IF result.correction.truthy THEN "auto_corrected_by_verifier"
    ELSE "flagged_by_verifier"

\* lines 225-243: the item after verify_item returned result
apply_verification(item, result) ==
    LET corrected == result.is_dict /\ result.is_correct = "false"
                     /\ result.correction.truthy
    IN [item EXCEPT
          !.config = IF corrected THEN MergeConfig(@, result.correction) ELSE @,
          !.article_name = IF corrected THEN MergeName(@, result.correction) ELSE @,
          !.metadata.verification_result = <<result>>,
          !.metadata.status = StatusAfter(@, result)]

\* lines 206-245: one pass of the loop body
escalate_item(item, has_key, outcome) ==
    IF SkippedAsFallback(item)
    THEN [item EXCEPT !.metadata.status = "verified_skipped_fallback"]
    ELSE IF NeedsVerifier(item)
    THEN apply_verification(item, verify_item(has_key, outcome))
    ELSE item

(***************************************************************************)
(* ai.py: extract_data_from_text_async, the split and the merge            *)
(***************************************************************************)
\* a text of this many lines or more is split (line_count < 100 is not)
ChunkThreshold == 100

\* range(15): the offsets from the midpoint searched for an empty line
SearchOffsets == 15

\* not lines[k].strip(), k counted from 0
Blank(lines, k) == Strip(lines[k + 1]) = <<>>

\* lines 283-292: the first empty line found, forward before backward at
\* each offset; the midpoint if there is none
RECURSIVE FindBreak(_, _, _)
FindBreak(lines, midpoint, offset) ==
    IF offset >= SearchOffsets THEN midpoint
    ELSE IF midpoint + offset < Len(lines) /\ Blank(lines, midpoint + offset)
    THEN midpoint + offset
    ELSE IF midpoint - offset > 0 /\ Blank(lines, midpoint - offset)
    THEN midpoint - offset
    ELSE FindBreak(lines, midpoint, offset + 1)

\* the search with the backward line tried before the forward one
RECURSIVE BackwardFirst(_, _, _)
BackwardFirst(lines, midpoint, offset) ==
    IF offset >= SearchOffsets THEN midpoint
    ELSE IF midpoint - offset > 0 /\ Blank(lines, midpoint - offset)
    THEN midpoint - offset
    ELSE IF midpoint + offset < Len(lines) /\ Blank(lines, midpoint + offset)
    THEN midpoint + offset
    ELSE BackwardFirst(lines, midpoint, offset + 1)

split_idx_backward(lines) == BackwardFirst(lines, Len(lines) \div 2, 0)

split_idx(lines) == FindBreak(lines, Len(lines) \div 2, 0)

\* '\n'.join(lines[:split_idx]) and '\n'.join(lines[split_idx:])
chunk1_text(lines, split) == Join(SubSeq(lines, 1, split), <<"\n">>)

\* a second partition that starts after the line of the split
chunk2_after_split(lines, split) == Join(SubSeq(lines, split + 2, Len(lines)), <<"\n">>)

chunk2_text(lines, split) == Join(SubSeq(lines, split + 1, Len(lines)), <<"\n">>)

\* str(i.get('pos', '')).isdigit()
PosIsDigit(item) ==
    item.pos # NONE /\ Len(item.pos) > 0 /\ \A k \in 1..Len(item.pos) : IsDigit(item.pos[k])

RECURSIVE valid_items(_)
valid_items(list) ==
    IF Len(list) = 0 THEN <<>>
    ELSE (IF PosIsDigit(list[1]) THEN <<list[1]>> ELSE <<>>) \o valid_items(Tail(list))

RECURSIVE others(_)
others(list) ==
    IF Len(list) = 0 THEN <<>>
    ELSE (IF PosIsDigit(list[1]) THEN <<>> ELSE <<list[1]>>) \o others(Tail(list))

\* item goes behind the items of sorted whose float(pos) is not larger
RECURSIVE InsertByPos(_, _)
InsertByPos(sorted, item) ==
    IF Len(sorted) = 0 THEN <<item>>
    ELSE IF IntOf(item.pos) < IntOf(sorted[1].pos) THEN <<item>> \o sorted
    ELSE <<sorted[1]>> \o InsertByPos(Tail(sorted), item)

\* list.sort(key=lambda x: float(x['pos'])): stable
RECURSIVE SortByPos(_)
SortByPos(list) ==
    IF Len(list) = 0 THEN <<>>
    ELSE InsertByPos(SortByPos(SubSeq(list, 1, Len(list) - 1)), list[Len(list)])

\* lines 325-331
merge_items(merged_items) == SortByPos(valid_items(merged_items)) \o others(merged_items)

(***************************************************************************)
(* ai.py: extract_data_from_text and extract_data_from_text_async as        *)
(* processes.  Call 0 is a call on the whole text, calls 1 and 2 are the   *)
(* two partitions of a chunked run, each in a thread of the executor.      *)
(***************************************************************************)
CallIds == {0, 1, 2}

\* send_to_n8n returned None
NoData == [kind |-> "null", items |-> <<>>]

Partitions == {1, 2}

\* the requested_items the extractor may return to call c
ReplyLists(c) == IF c = 0 THEN CandidateLists ELSE ChunkLists

VARIABLES
    api_key,    \* MISTRAL_API_KEY is set (read once, by ai.py and verifier.py)
    pc,         \* pc[c]: where call c is
    text,       \* text[c]: its text argument
    native,     \* native[c]: its native_text argument
    has_items,  \* has_items[c]: the parsed JSON has "requested_items"
    reply,      \* reply[c]: requested_items as the extractor returned them
    items,      \* items[c]: parsed_json["requested_items"]
    idx,        \* idx[c]: the item the escalation loop is at
    vlog,       \* vlog[c]: the verify_item calls made, in order
    apc,        \* where the call of extract_data_from_text_async is
    atext,      \* its text argument
    anative,    \* its native_text argument
    merged,     \* the requested_items it returns
    hpc,        \* where the handler of /process is
    http_status,\* the status code of its response, 0 before it responds
    n8n_task,   \* the state of the task that runs send_to_n8n
    n8n_data,   \* what send_to_n8n got from the webhook
    fn,         \* the function of validator.py that is called on its own
    fn_in,      \* its arguments
    fn_out,     \* what it returned
    corrections,     \* corrections[i]: self.corrections of CorrectionService i
    corrections_file,\* the list in data/corrections.json
    called,          \* the last method call on a CorrectionService
    learned_context  \* what get_few_shot_context returned, if it was called last

callvars == <<pc, text, native, has_items, reply, items, idx, vlog>>

asyncvars == <<apc, atext, anative, merged>>

procvars == <<hpc, http_status, n8n_task, n8n_data>>

fnvars == <<fn, fn_in, fn_out>>

learnvars == <<corrections, corrections_file, called, learned_context>>

vars == <<api_key, pc, text, native, has_items, reply, items, idx, vlog,
          apc, atext, anative, merged, hpc, http_status, n8n_task, n8n_data,
          fn, fn_in, fn_out,
          corrections, corrections_file, called, learned_context>>

\* lines 133-174: the guards; the request is then in flight
Enter(c) ==
    /\ pc[c] = "invoked"
    /\ pc' = [pc EXCEPT ![c] = IF ~api_key \/ ~Truthy(text[c])
                               THEN "raised" ELSE "requesting"]
    /\ UNCHANGED <<api_key, text, native, has_items, reply, items, idx, vlog>>
    /\ UNCHANGED asyncvars
    /\ UNCHANGED <<procvars, fnvars, learnvars>>

\* lines 176-193, 249-257: timeout, HTTP error, empty or non-JSON content
ExtractorFails(c) ==
    /\ pc[c] = "requesting"
    /\ pc' = [pc EXCEPT ![c] = "raised"]
    /\ UNCHANGED <<api_key, text, native, has_items, reply, items, idx, vlog>>
    /\ UNCHANGED asyncvars
    /\ UNCHANGED <<procvars, fnvars, learnvars>>

\* lines 193-202: the reply holds requested_items; the rule layer runs on them
ExtractorReplies(c) ==
    /\ pc[c] = "requesting"
    /\ \E list \in ReplyLists(c) :
          /\ reply' = [reply EXCEPT ![c] = list]
          /\ items' = [items EXCEPT ![c] = validate_and_fix_items(list, native[c], text[c])]
    /\ has_items' = [has_items EXCEPT ![c] = TRUE]
    /\ idx' = [idx EXCEPT ![c] = 1]
    /\ pc' = [pc EXCEPT ![c] = "escalating"]
    /\ UNCHANGED <<api_key, text, native, vlog>>
    /\ UNCHANGED asyncvars
    /\ UNCHANGED <<procvars, fnvars, learnvars>>

\* lines 197, 247: a JSON object without requested_items is returned as it is
ExtractorRepliesOther(c) ==
    /\ pc[c] = "requesting"
    /\ pc' = [pc EXCEPT ![c] = "returned"]
    /\ UNCHANGED <<api_key, text, native, has_items, reply, items, idx, vlog>>
    /\ UNCHANGED asyncvars
    /\ UNCHANGED <<procvars, fnvars, learnvars>>

\* lines 206-245: the loop body for item idx[c]
Escalate(c) ==
    /\ pc[c] = "escalating"
    /\ idx[c] <= Len(items[c])
    /\ \E outcome \in OutcomesFor(items[c][idx[c]]) :
          /\ items' = [items EXCEPT ![c][idx[c]] = escalate_item(@, api_key, outcome)]
          /\ vlog' = [vlog EXCEPT ![c] =
                         IF NeedsVerifier(items[c][idx[c]])
                         THEN Append(@, [item |-> idx[c], outcome |-> outcome])
                         ELSE @]
    /\ idx' = [idx EXCEPT ![c] = @ + 1]
    /\ UNCHANGED <<api_key, pc, text, native, has_items, reply>>
    /\ UNCHANGED asyncvars
    /\ UNCHANGED <<procvars, fnvars, learnvars>>

\* line 247: return parsed_json
Return(c) ==
    /\ pc[c] = "escalating"
    /\ idx[c] > Len(items[c])
    /\ pc' = [pc EXCEPT ![c] = "returned"]
    /\ UNCHANGED <<api_key, text, native, has_items, reply, items, idx, vlog>>
    /\ UNCHANGED asyncvars
    /\ UNCHANGED <<procvars, fnvars, learnvars>>

CallStep(c) ==
    \/ Enter(c)
    \/ ExtractorFails(c)
    \/ ExtractorReplies(c)
    \/ ExtractorRepliesOther(c)
    \/ Escalate(c)
    \/ Return(c)

\* call c has ended: its result or its exception is there
Ended(c) == pc[c] \in {"returned", "raised"}

\* lines 264-265: raise ValueError("No text provided")
AsyncRaise ==
    /\ apc = "invoked"
    /\ ~Truthy(atext)
    /\ apc' = "raised"
    /\ UNCHANGED <<api_key, atext, anative, merged>>
    /\ UNCHANGED callvars
    /\ UNCHANGED <<procvars, fnvars, learnvars>>

\* lines 267-274: fewer lines than the threshold, one call on the whole text
RunSingle ==
    /\ apc = "invoked"
    /\ Truthy(atext)
    /\ Len(Split(atext, "\n")) < ChunkThreshold
    /\ pc' = [pc EXCEPT ![0] = "invoked"]
    /\ text' = [text EXCEPT ![0] = atext]
    /\ native' = [native EXCEPT ![0] = anative]
    /\ apc' = "single"
    /\ UNCHANGED <<api_key, has_items, reply, items, idx, vlog, atext, anative, merged>>
    /\ UNCHANGED <<procvars, fnvars, learnvars>>

\* lines 277-305: the text is split and both partitions are submitted to the
\* executor, each without native_text
SplitAndRun(lines, split) ==
    /\ pc' = [pc EXCEPT ![1] = "invoked", ![2] = "invoked"]
    /\ text' = [text EXCEPT ![1] = chunk1_text(lines, split),
                            ![2] = chunk2_text(lines, split)]
    /\ native' = [native EXCEPT ![1] = NONE, ![2] = NONE]

RunChunks ==
    /\ apc = "invoked"
    /\ Truthy(atext)
    /\ Len(Split(atext, "\n")) >= ChunkThreshold
    /\ SplitAndRun(Split(atext, "\n"), split_idx(Split(atext, "\n")))
    /\ apc' = "gathering"
    /\ UNCHANGED <<api_key, has_items, reply, items, idx, vlog, atext, anative, merged>>
    /\ UNCHANGED <<procvars, fnvars, learnvars>>

\* line 274: the await of the single call ends with its result or exception
SingleDone ==
    /\ apc = "single"
    /\ Ended(0)
    /\ apc' = pc[0]
    /\ merged' = items[0]
    /\ UNCHANGED <<api_key, atext, anative>>
    /\ UNCHANGED callvars
    /\ UNCHANGED <<procvars, fnvars, learnvars>>

\* a partition adds its items only if no partition has failed
PartItemsIfAllReturned(c) ==
    IF (\A d \in {1, 2} : pc[d] = "returned") /\ has_items[c] THEN items[c] ELSE <<>>

\* lines 312-320: what partition c adds to merged_items
PartItems(c) ==
    IF pc[c] = "returned" /\ has_items[c] THEN items[c] ELSE <<>>

\* lines 307-337: gather ends when both partitions have ended; the items of
\* those that returned are merged, sorted and returned
Gather ==
    /\ apc = "gathering"
    /\ \A c \in Partitions : Ended(c)
    /\ merged' = merge_items(PartItems(1) \o PartItems(2))
    /\ apc' = "returned"
    /\ UNCHANGED <<api_key, atext, anative>>
    /\ UNCHANGED callvars
    /\ UNCHANGED <<procvars, fnvars, learnvars>>

\* extract_data_from_text_async is not called
AsyncIdle ==
    /\ apc = "idle"
    /\ atext = <<>>
    /\ anative = NONE
    /\ merged = <<>>

\* /process is not called
ProcIdle ==
    /\ hpc = "idle"
    /\ http_status = 0
    /\ n8n_task = "none"
    /\ n8n_data = NoData

\* no function is called on its own
FnIdle ==
    /\ fn = "none"
    /\ fn_in = <<>>
    /\ fn_out = <<>>

\* main.py:33 and ai.py:18 each construct a CorrectionService
Instances == {"main", "ai"}

NoMethodCall == [op |-> "none"]

\* both services have loaded an empty store and no method is called
LearnIdle ==
    /\ corrections = [i \in Instances |-> <<>>]
    /\ corrections_file = <<>>
    /\ called = NoMethodCall
    /\ learned_context = <<>>

\* extract_data_from_text(text, native_text) is called directly
Init ==
    /\ api_key \in BOOLEAN
    /\ \E in \in Inputs :
          /\ text = [c \in CallIds |-> IF c = 0 THEN in[1] ELSE <<>>]
          /\ native = [c \in CallIds |-> IF c = 0 THEN in[2] ELSE NONE]
    /\ pc = [c \in CallIds |-> IF c = 0 THEN "invoked" ELSE "idle"]
    /\ has_items = [c \in CallIds |-> FALSE]
    /\ reply = [c \in CallIds |-> <<>>]
    /\ items = [c \in CallIds |-> <<>>]
    /\ idx = [c \in CallIds |-> 0]
    /\ vlog = [c \in CallIds |-> <<>>]
    /\ AsyncIdle
    /\ ProcIdle
    /\ FnIdle
    /\ LearnIdle

Next == CallStep(0)

Spec == Init /\ [][Next]_vars

\* extract_data_from_text_async(text, native_text) is called
InitAsync ==
    /\ api_key \in BOOLEAN
    /\ \E in \in AsyncInputs :
          /\ atext = in[1]
          /\ anative = in[2]
    /\ apc = "invoked"
    /\ pc = [c \in CallIds |-> "idle"]
    /\ text = [c \in CallIds |-> <<>>]
    /\ native = [c \in CallIds |-> NONE]
    /\ has_items = [c \in CallIds |-> FALSE]
    /\ reply = [c \in CallIds |-> <<>>]
    /\ items = [c \in CallIds |-> <<>>]
    /\ idx = [c \in CallIds |-> 0]
    /\ vlog = [c \in CallIds |-> <<>>]
    /\ merged = <<>>
    /\ ProcIdle
    /\ FnIdle
    /\ LearnIdle

NextAsync ==
    \/ AsyncRaise
    \/ RunSingle
    \/ RunChunks
    \/ SingleDone
    \/ Gather
    \/ \E c \in CallIds : CallStep(c)

SpecAsync == InitAsync /\ [][NextAsync]_vars

(***************************************************************************)
(* main.py: the handler of /process (process_file), the task that runs     *)
(* send_to_n8n beside it, and cross_validate.  The AI extraction of the    *)
(* handler is call 0 of extract_data_from_text.                            *)
(***************************************************************************)
LowerChar(c) ==
    IF \E i \in 1..26 : UpperLetters[i] = c
    THEN LowerLetters[CHOOSE i \in 1..26 : UpperLetters[i] = c]
    ELSE IF c = "Ü" THEN "ü"
    ELSE c

\* str.lower()
Lower(s) == [i \in 1..Len(s) |-> LowerChar(s[i])]

\* Items of the webhook's extraction: pos, quantity, material, dimensions.
\* pos 1, as Cand_clean has it but for the case of the material
N8n_same ==
    [pos |-> <<"1">>, quantity |-> <<"1","0","0">>,
     material |-> <<"c","4","5","+","c">>,
     dimensions |-> [width |-> <<8, 0>>, height |-> <<7, 0>>, length |-> <<20, 0>>]]

\* pos 1, another quantity, material and length
N8n_other ==
    [pos |-> <<" ","1">>, quantity |-> <<"5","0">>,
     material |-> <<"C","4","5","K">>,
     dimensions |-> [width |-> <<8, 0>>, height |-> NoNum, length |-> <<25, 0>>]]

\* pos 2, another width
N8n_pos2 ==
    [pos |-> <<"2">>, quantity |-> NONE, material |-> NONE,
     dimensions |-> [width |-> <<12, 0>>, height |-> <<8, 0>>, length |-> NoNum]]

\* What response.json() may be: null, a list of items, an object with the
\* list under "items", an object without any of the keys cross_validate reads
N8nReplies ==
    {NoData,
     [kind |-> "list", items |-> <<N8n_same>>],
     [kind |-> "list", items |-> <<N8n_same, N8n_other>>],
     [kind |-> "items", items |-> <<N8n_pos2, N8n_other>>],
     [kind |-> "other", items |-> <<N8n_other>>]}

\* lines 63-69: the webhook's items, wherever its reply holds them
n8n_items(data) ==
    IF data.kind \in {"list", "items", "requested_items", "data"}
    THEN data.items ELSE <<>>

\* lines 78-86: n8n_by_pos.get(pos), the last item with that stripped pos
HasN8nItem(list, pos) ==
    pos # <<>> /\ \E k \in 1..Len(list) : Strip(list[k].pos) = pos

n8n_by_pos(list, pos) ==
    list[CHOOSE k \in 1..Len(list) :
            /\ Strip(list[k].pos) = pos
            /\ \A j \in (k + 1)..Len(list) : Strip(list[j].pos) # pos]

\* lines 107-120: the dimensions both have and that differ as floats
DimMismatches(our_dims, n8n_dims) ==
    LET diff(key) == IF our_dims[key] # NoNum /\ n8n_dims[key] # NoNum
                        /\ our_dims[key] # n8n_dims[key]
                     THEN <<key>> ELSE <<>>
    IN diff("width") \o diff("height") \o diff("length")

\* lines 91-120: the fields that differ, in the order the code appends them
Mismatches(item, n8n_item) ==
    (IF Truthy(item.quantity) /\ Truthy(n8n_item.quantity)
        /\ item.quantity # n8n_item.quantity
     THEN <<"quantity">> ELSE <<>>)
    \o (IF Truthy(item.config.material) /\ Truthy(n8n_item.material)
           /\ Lower(item.config.material) # Lower(n8n_item.material)
        THEN <<"material">> ELSE <<>>)
    \o DimMismatches(item.config.dimensions, n8n_item.dimensions)

\* lines 123-130: metadata gets the keys n8n_mismatches and n8n_flag, and
\* rule_confidence_score = min(score, 0.5), an absent score counting as 1.0
FlagMismatch(item, mismatches) ==
    IF mismatches = <<>> THEN item
    ELSE [item EXCEPT !.metadata =
            [key \in DOMAIN @ \cup {"n8n_mismatches", "n8n_flag"} |->
                IF key = "n8n_mismatches" THEN mismatches
                ELSE IF key = "n8n_flag" THEN TRUE
                ELSE IF key = "rule_confidence_score"
                THEN (IF @[key] = NoScore \/ @[key] > 5 THEN 5 ELSE @[key])
                ELSE @[key]]]

\* lines 84-131: one pass of the loop over our_items
cross_validate_item(item, list) ==
    IF HasN8nItem(list, PosStr(item))
    THEN FlagMismatch(item, Mismatches(item, n8n_by_pos(list, PosStr(item))))
    ELSE item

cross_validate(our_items, data) ==
    [k \in 1..Len(our_items) |-> cross_validate_item(our_items[k], n8n_items(data))]

\* <<masked_text, native_text>> that ingestion and masking may give: a hybrid
\* PDF, an empty document
ProcessInputs == {<<Text1, Native1>>, <<<<>>, NONE>>}

\* the handler is suspended in an await and the task can run
AtAwait == hpc \in {"ingesting", "joining"}

\* lines 251-254: the file is read and the task is created
Start ==
    /\ hpc = "invoked"
    /\ hpc' = "ingesting"
    /\ n8n_task' = "pending"
    /\ UNCHANGED <<api_key, http_status, n8n_data>>
    /\ UNCHANGED <<callvars, asyncvars, fnvars, learnvars>>

\* lines 256-306: ingestion or masking raises; 400 or 500
PrepareFails ==
    /\ hpc = "ingesting"
    /\ hpc' = "responded"
    /\ http_status' \in {400, 500}
    /\ UNCHANGED <<api_key, n8n_task, n8n_data>>
    /\ UNCHANGED <<callvars, asyncvars, fnvars, learnvars>>

\* lines 256-311: ingestion and masking give the masked text and the native
\* text, and extract_data_from_text is called with them
Prepare ==
    /\ hpc = "ingesting"
    /\ \E in \in ProcessInputs :
          /\ text' = [text EXCEPT ![0] = in[1]]
          /\ native' = [native EXCEPT ![0] = in[2]]
    /\ pc' = [pc EXCEPT ![0] = "invoked"]
    /\ hpc' = "extracting"
    /\ UNCHANGED <<api_key, has_items, reply, items, idx, vlog>>
    /\ UNCHANGED <<http_status, n8n_task, n8n_data>>
    /\ UNCHANGED <<asyncvars, fnvars, learnvars>>

\* lines 314-317: extract_data_from_text raised; 502
ExtractionFails ==
    /\ hpc = "extracting"
    /\ pc[0] = "raised"
    /\ hpc' = "responded"
    /\ http_status' = 502
    /\ UNCHANGED <<api_key, n8n_task, n8n_data>>
    /\ UNCHANGED <<callvars, asyncvars, fnvars, learnvars>>

\* lines 311-337: the payload is built and the handler awaits the task
Extracted ==
    /\ hpc = "extracting"
    /\ pc[0] = "returned"
    /\ hpc' = "joining"
    /\ UNCHANGED <<api_key, http_status, n8n_task, n8n_data>>
    /\ UNCHANGED <<callvars, asyncvars, fnvars, learnvars>>

\* lines 43-46: the webhook answers 200 and its JSON is returned
N8nReturns ==
    /\ n8n_task = "pending"
    /\ AtAwait
    /\ n8n_task' = "ok"
    /\ n8n_data' \in N8nReplies
    /\ UNCHANGED <<api_key, hpc, http_status>>
    /\ UNCHANGED <<callvars, asyncvars, fnvars, learnvars>>

\* a send_to_n8n that returns the body of a reply whatever its status code
N8nNon200KeepsBody ==
    /\ n8n_task = "pending"
    /\ AtAwait
    /\ n8n_task' = "non200"
    /\ n8n_data' \in N8nReplies
    /\ UNCHANGED <<api_key, hpc, http_status>>
    /\ UNCHANGED <<callvars, asyncvars, fnvars, learnvars>>

\* lines 47-49: another status code; None is returned
N8nNon200 ==
    /\ n8n_task = "pending"
    /\ AtAwait
    /\ n8n_task' = "non200"
    /\ UNCHANGED <<api_key, hpc, http_status, n8n_data>>
    /\ UNCHANGED <<callvars, asyncvars, fnvars, learnvars>>

\* lines 50-52: the request or response.json() raises; None is returned
N8nFails ==
    /\ n8n_task = "pending"
    /\ AtAwait
    /\ n8n_task' = "failed"
    /\ UNCHANGED <<api_key, hpc, http_status, n8n_data>>
    /\ UNCHANGED <<callvars, asyncvars, fnvars, learnvars>>

\* lines 337-346: the task has ended; its data, if any, is compared with
\* requested_items, and the payload is returned
JoinDone ==
    /\ hpc = "joining"
    /\ n8n_task \in {"ok", "non200", "failed"}
    /\ items' = [items EXCEPT ![0] =
                    IF n8n_data # NoData /\ has_items[0]
                    THEN cross_validate(@, n8n_data) ELSE @]
    /\ hpc' = "responded"
    /\ http_status' = 200
    /\ UNCHANGED <<api_key, pc, text, native, has_items, reply, idx, vlog>>
    /\ UNCHANGED <<n8n_task, n8n_data>>
    /\ UNCHANGED <<asyncvars, fnvars, learnvars>>

\* lines 337, 341-346: the wait of 120 s elapses, wait_for cancels the task
\* and the payload is returned
JoinTimeout ==
    /\ hpc = "joining"
    /\ n8n_task = "pending"
    /\ n8n_task' = "cancelled"
    /\ hpc' = "responded"
    /\ http_status' = 200
    /\ UNCHANGED <<api_key, n8n_data>>
    /\ UNCHANGED <<callvars, asyncvars, fnvars, learnvars>>

\* POST /process is called
InitProcess ==
    /\ api_key \in BOOLEAN
    /\ hpc = "invoked"
    /\ http_status = 0
    /\ n8n_task = "none"
    /\ n8n_data = NoData
    /\ pc = [c \in CallIds |-> "idle"]
    /\ text = [c \in CallIds |-> <<>>]
    /\ native = [c \in CallIds |-> NONE]
    /\ has_items = [c \in CallIds |-> FALSE]
    /\ reply = [c \in CallIds |-> <<>>]
    /\ items = [c \in CallIds |-> <<>>]
    /\ idx = [c \in CallIds |-> 0]
    /\ vlog = [c \in CallIds |-> <<>>]
    /\ AsyncIdle
    /\ FnIdle
    /\ LearnIdle

NextProcess ==
    \/ Start
    \/ PrepareFails
    \/ Prepare
    \/ CallStep(0)
    \/ ExtractionFails
    \/ Extracted
    \/ N8nReturns
    \/ N8nNon200
    \/ N8nFails
    \/ JoinDone
    \/ JoinTimeout

SpecProcess == InitProcess /\ [][NextProcess]_vars

(***************************************************************************)
(* validator.py: its functions called on their own, each on one input;     *)
(* ai.py: the split of extract_data_from_text_async on its own             *)
(***************************************************************************)
\* the material_id line first, the line of pos 2 below it
Text3 == Join(<<Line_matid, Line_pos2>>, <<"\n">>)

\* pos 2 and a material_id: both anchors have a line in Text2 and Text3
Cand_posmatid == [Cand_matid EXCEPT !.pos = <<"2">>]

\* pos 2, the thread M6 of its line listed twice by the extractor
Cand_dupfeat ==
    [Cand_noform EXCEPT !.config.features =
        <<[feature_type |-> "thread", spec |-> <<"M","6">>],
          [feature_type |-> "thread", spec |-> <<"M","6">>]>>]

\* pos 1, the material of its line missed by the extractor
Cand_nomat == [Cand_clean EXCEPT !.config.material = NONE]

\* a known bad material and nothing else: no line of its own, no form, no
\* dimensions, and the bad value in its article_name
Cand_barebad ==
    [Cand_fallback EXCEPT
        !.article_name = <<"P","a","s","s","f","e","d","e","r"," ","P","5","K">>,
        !.config.form = NONE,
        !.config.material = S_P5K,
        !.config.dimensions = [width |-> NoNum, height |-> NoNum, length |-> NoNum]]

\* three tokens longer than 3 characters, two of them in the line of pos 2
Cand_threetokens ==
    [Cand_tokens EXCEPT
        !.article_name = <<"P","a","s","s","f","e","d","e","r","-","F","o","r","m","-",
                           "R","u","n","d">>]

ValidateCandidates ==
    {Cand_posmatid, Cand_matid, Cand_dupfeat, Cand_nullfeat, Cand_nomat, Cand_barebad,
     Cand_tokens, Cand_threetokens}

\* the longest list validate_and_fix_items is called on
MaxValidateItems == 2

\* native texts of 20 and of 21 characters with a line for pos 1
Native_20 ==
    <<"1"," ","P","a","s","s","f","e","d","e","r"," ","C","4","5","K"," ","M","1","0">>
Native_21 ==
    <<"1"," ","P","a","s","s","f","e","d","e","r"," ","C","4","5","+","C"," ","M","1","0">>

\* <<items, native_text, ocr_text>>
ValidateInputs ==
    {<<list, in[2], in[1]>> :
        list \in UNION {[1..n -> ValidateCandidates] : n \in 1..MaxValidateItems},
        in \in {<<Text1, Native1>>, <<Text2, NONE>>, <<Text3, NONE>>,
                 <<Text1, Native_20>>, <<Text1, Native_21>>}}

\* the function has not returned yet
NotReturned == <<>>

\* validate_and_fix_items(items, native_text, ocr_text)
CallValidate ==
    /\ fn = "validate_and_fix_items"
    /\ fn_out = NotReturned
    /\ fn_out' = <<validate_and_fix_items(fn_in[1], fn_in[2], fn_in[3])>>
    /\ UNCHANGED <<api_key, fn, fn_in>>
    /\ UNCHANGED <<callvars, asyncvars, procvars, learnvars>>

\* B = 20 x 8
Line_label == <<"B"," ","="," ","2","0"," ","x"," ","8">>

\* Passfeder A=8 C=20
Line_labels == <<"P","a","s","s","f","e","d","e","r"," ","A","=","8"," ","C","=","2","0">>

\* the forms an item is scored with
ConfidenceForms == {NONE, <<"A">>, <<"B">>, <<"C">>, <<"E">>, <<"A","B">>}

\* <<item, raw_text_snippet>>
ConfidenceInputs ==
    {<<[item EXCEPT !.config.form = form], snippet>> :
        item \in {Cand_clean, Cand_formB, Cand_matid},
        form \in ConfidenceForms,
        snippet \in {Line_pos1, Line_pos2, Line_label, Line_labels, <<>>}}

\* calculate_confidence(item, raw_text_snippet); "raised" for its exception
CallConfidence ==
    /\ fn = "calculate_confidence"
    /\ fn_out = NotReturned
    /\ fn_out' = IF ConfidenceRaises(fn_in[1], fn_in[2]) THEN <<"raised">>
                 ELSE <<calculate_confidence(fn_in[1], fn_in[2])>>
    /\ UNCHANGED <<api_key, fn, fn_in>>
    /\ UNCHANGED <<callvars, asyncvars, procvars, learnvars>>

\* Texts with a toleranced triple <w>H<t>x<h>x<l>, built from what stands
\* before it, its numbers as written, its separator and what follows it
DimPrefixes ==
    {<<>>, <<"A","S","-">>, <<"2","0","x","1","2","x","5","0"," ">>}

DimWidths == {<<"8">>, <<"1","0">>, <<"1",".","5">>, <<"7",",","5">>}

DimHs == {<<"H">>, <<"h">>}

DimGrades == {<<"9">>, <<"1","1">>}

DimSeps == {<<"x">>, <<"X">>, <<" ","x"," ">>}

DimHeights == {<<"7">>, <<"6",".","3">>}

DimLengths == {<<"3","6">>}

DimSuffixes == {<<>>, <<" ","5","x","4","x","3">>}

TolerancedTriple(pre, w, hh, t, sep, h, l, suf) ==
    pre \o w \o hh \o t \o sep \o h \o sep \o l \o suf

\* texts without a toleranced triple
PlainDimStrings ==
    {Line_pos1, Line_pos2, Line_native, Line_label, <<>>,
     <<"2","0","x","1","2">>, <<"H","7">>}

DimStrings ==
    {TolerancedTriple(pre, w, hh, t, sep, h, l, suf) :
        pre \in DimPrefixes, w \in DimWidths, hh \in DimHs, t \in DimGrades,
        sep \in DimSeps, h \in DimHeights, l \in DimLengths, suf \in DimSuffixes}
    \cup PlainDimStrings

\* parse_dimensions_from_string(text)
CallParseDimensions ==
    /\ fn = "parse_dimensions_from_string"
    /\ fn_out = NotReturned
    /\ fn_out' = <<parse_dimensions_from_string(fn_in[1])>>
    /\ UNCHANGED <<api_key, fn, fn_in>>
    /\ UNCHANGED <<callvars, asyncvars, procvars, learnvars>>

\* Texts of up to MaxWords words, each followed by one separator or by the
\* end of the text
FeatureWords ==
    {<<"M","4">>, <<"m","6">>, <<"M","2","4">>, <<"P","F">>}

FeatureSeps == {<<" ">>, <<"-">>, <<" "," ">>}

MaxWords == 3

RECURSIVE FeatureStringsOf(_)
FeatureStringsOf(n) ==
    IF n = 1 THEN FeatureWords
    ELSE {w \o sep \o rest :
            w \in FeatureWords, sep \in FeatureSeps, rest \in FeatureStringsOf(n - 1)}

FeatureStrings == UNION {FeatureStringsOf(n) : n \in 1..MaxWords}

\* extract_features_from_string(text)
CallExtractFeatures ==
    /\ fn = "extract_features_from_string"
    /\ fn_out = NotReturned
    /\ fn_out' = <<extract_features_from_string(fn_in[1])>>
    /\ UNCHANGED <<api_key, fn, fn_in>>
    /\ UNCHANGED <<callvars, asyncvars, procvars, learnvars>>

\* A text of n lines, line k (counted from 0) being "#k", but for the
\* lines of blanks, which are blank_line
SplitDoc(n, blanks, blank_line) ==
    Join([i \in 1..n |-> IF (i - 1) \in blanks THEN blank_line
                         ELSE <<"#">> \o StrOfNat(i - 1)],
         <<"\n">>)

\* where the blank lines are, from the midpoint
BlankOffsets == {0 - 16, 0 - 15, 0 - 14, 0 - 13, 0 - 2, 0 - 1, 0, 1, 2, 13, 14, 15, 16}

\* texts of 100 and 101 lines with no, one or two blank lines, which are
\* empty or hold one space
SplitDocs ==
    {SplitDoc(n, {}, <<>>) : n \in {100, 101}}
    \cup {SplitDoc(n, {n \div 2 + a, n \div 2 + b}, blank_line) :
            n \in {100, 101}, a \in BlankOffsets, b \in BlankOffsets,
            blank_line \in {<<>>, <<" ">>}}

\* lines 267-295 of extract_data_from_text_async for a text that is chunked
SplitText(lines) ==
    [split_idx |-> split_idx(lines),
     chunk1_text |-> chunk1_text(lines, split_idx(lines)),
     chunk2_text |-> chunk2_text(lines, split_idx(lines))]

CallSplit ==
    /\ fn = "split"
    /\ fn_out = NotReturned
    /\ Len(Split(fn_in[1], "\n")) >= ChunkThreshold
    /\ fn_out' = <<SplitText(Split(fn_in[1], "\n"))>>
    /\ UNCHANGED <<api_key, fn, fn_in>>
    /\ UNCHANGED <<callvars, asyncvars, procvars, learnvars>>

FnCalls ==
    {[fn |-> "validate_and_fix_items", in |-> in] : in \in ValidateInputs}
    \cup {[fn |-> "split", in |-> <<t>>] : t \in SplitDocs}
    \cup {[fn |-> "extract_features_from_string", in |-> <<s>>] : s \in FeatureStrings}
    \cup {[fn |-> "parse_dimensions_from_string", in |-> <<s>>] : s \in DimStrings}
    \cup {[fn |-> "calculate_confidence", in |-> in] : in \in ConfidenceInputs}

\* one function is called on one input
InitFn ==
    /\ api_key = TRUE
    /\ \E call \in FnCalls :
          /\ fn = call.fn
          /\ fn_in = call.in
    /\ fn_out = NotReturned
    /\ pc = [c \in CallIds |-> "idle"]
    /\ text = [c \in CallIds |-> <<>>]
    /\ native = [c \in CallIds |-> NONE]
    /\ has_items = [c \in CallIds |-> FALSE]
    /\ reply = [c \in CallIds |-> <<>>]
    /\ items = [c \in CallIds |-> <<>>]
    /\ idx = [c \in CallIds |-> 0]
    /\ vlog = [c \in CallIds |-> <<>>]
    /\ AsyncIdle
    /\ ProcIdle
    /\ LearnIdle

NextFn ==
    \/ CallValidate
    \/ CallParseDimensions
    \/ CallExtractFeatures
    \/ CallSplit
    \/ CallConfidence

SpecFn == InitFn /\ [][NextFn]_vars

(***************************************************************************)
(* correction_service.py: CorrectionService, the instance of main.py that  *)
(* /correct saves to and the instance of ai.py that                        *)
(* extract_data_from_text reads                                            *)
(***************************************************************************)
\* keywords of fingerprint_text
keywords ==
    << <<"w","ü","r","t","h">>,
       <<"n","o","s","t","a">>,
       <<"s","c","h","r","a","u","b","e","n">>,
       <<"l","i","e","f","e","r","t","e","r","m","i","n">>,
       <<"b","e","s","t","e","l","l","n","u","m","m","e","r">>,
       <<"a","u","f","t","r","a","g">> >>

\* the keywords that text.lower() holds, in the order of the list
fingerprint_text(t) ==
    LET text_lower == Lower(t)
    IN SelectSeq(keywords, LAMBDA k : Contains(text_lower, k))

\* the entry save_correction builds
NewCorrection(raw_text_snippet, correct_json, full_text_context) ==
    [fingerprints |-> fingerprint_text(full_text_context),
     raw_text |-> Strip(raw_text_snippet),
     correction |-> correct_json,
     timestamp |-> "TODO: timestamp"]

\* an entry with the raw_text and the correction of this one is in the list
IsDuplicate(list, correction) ==
    \E k \in 1..Len(list) :
        /\ list[k].raw_text = correction.raw_text
        /\ list[k].correction = correction.correction

\* save_correction without the check for duplicates
AlwaysAppend(list, raw_text_snippet, correct_json, full_text_context) ==
    Append(list, NewCorrection(raw_text_snippet, correct_json, full_text_context))

\* self.corrections after save_correction
save_correction(list, raw_text_snippet, correct_json, full_text_context) ==
    LET correction == NewCorrection(raw_text_snippet, correct_json, full_text_context)
    IN IF IsDuplicate(list, correction) THEN list ELSE Append(list, correction)

\* any(f in corr["fingerprints"] for f in fingerprints)
SharesFingerprint(corr, fingerprints) ==
    \E i \in 1..Len(fingerprints), j \in 1..Len(corr.fingerprints) :
        fingerprints[i] = corr.fingerprints[j]

\* every stored correction, whatever its fingerprints
AllCorrections(list, fingerprints) == list

\* relevant_corrections
Relevant(list, fingerprints) ==
    SelectSeq(list, LAMBDA corr : SharesFingerprint(corr, fingerprints))

\* relevant_corrections[-3:]
FewShotLimit == 3

MostRecent(list) ==
    IF Len(list) > FewShotLimit
    THEN SubSeq(list, Len(list) - FewShotLimit + 1, Len(list))
    ELSE list

\* the corrections a request can carry, and json.dumps of each
Json_AS == [form |-> <<"A","S">>]
Json_B == [form |-> <<"B">>]

CorrectJsons == {Json_AS, Json_B}

Dumps(correct_json) ==
    <<"{","\"","f","o","r","m","\"",":"," ","\"">> \o correct_json.form \o <<"\"","}">>

\* The block is modelled by its lines; the empty string has none.
HeaderLine == [label |-> "LEARNED CORRECTIONS", value |-> <<>>]

ExampleLines(corr, i) ==
    <<[label |-> "Example", value |-> i],
      [label |-> "RAW TEXT", value |-> corr.raw_text],
      [label |-> "CORRECT OUTPUT", value |-> Dumps(corr.correction)]>>

RECURSIVE ExamplesFrom(_, _)
ExamplesFrom(list, i) ==
    IF i > Len(list) THEN <<>>
    ELSE ExampleLines(list[i], i) \o ExamplesFrom(list, i + 1)

FormatContext(relevant) ==
    IF relevant = <<>> THEN <<>>
    ELSE <<HeaderLine>> \o ExamplesFrom(MostRecent(relevant), 1)

get_few_shot_context(list, t) ==
    LET fingerprints == fingerprint_text(t)
    IN IF fingerprints = <<>> THEN <<>>
       ELSE FormatContext(Relevant(list, fingerprints))

\* the snippets and documents of the requests
Snippet_5 == <<"P","o","s"," ","5">>
Snippet_5_padded == <<" ","P","o","s"," ","5","\n">>
Snippet_7 == <<"P","o","s"," ","7">>

\* <<raw_text_snippet, correct_json>> of the requests
Requests ==
    {<<Snippet_5, Json_AS>>, <<Snippet_5_padded, Json_AS>>, <<Snippet_5, Json_B>>,
     <<Snippet_7, Json_AS>>}

Doc_nosta == <<"N","o","s","t","a"," ","G","m","b","H">>
Doc_both == <<"A","U","F","T","R","A","G"," ","n","o","s","t","a">>
Doc_auftrag == <<"A","u","f","t","r","a","g"," ","1","2">>
Doc_none == <<"A","n","g","e","b","o","t">>

\* full_text_context of the requests
Contexts == {Doc_nosta, Doc_both, Doc_none}

\* the texts get_few_shot_context is called with
Documents == {Doc_nosta, Doc_auftrag, Doc_none}

\* POST /correct: save_correction on the service of main.py; the list is
\* written to the file when an entry was appended
submit_correction ==
    \E request \in Requests, context \in Contexts :
        LET saved == save_correction(corrections["main"], request[1], request[2], context)
        IN /\ corrections' = [corrections EXCEPT !["main"] = saved]
           /\ corrections_file' =
                 IF saved = corrections["main"] THEN corrections_file ELSE saved
           /\ called' = [op |-> "save_correction", service |-> "main",
                         snippet |-> request[1], json |-> request[2],
                         context |-> context]
           /\ learned_context' = <<>>
           /\ UNCHANGED <<api_key, callvars, asyncvars, procvars, fnvars>>

\* get_few_shot_context on service i
FetchContext(i) ==
    \E t \in Documents :
        /\ learned_context' = get_few_shot_context(corrections[i], t)
        /\ called' = [op |-> "get_few_shot_context", service |-> i, text |-> t]
        /\ UNCHANGED <<corrections, corrections_file>>
        /\ UNCHANGED <<api_key, callvars, asyncvars, procvars, fnvars>>

\* extract_data_from_text fetches the learned context from the service of
\* ai.py
ExtractFetchesContext == FetchContext("ai")

\* get_few_shot_context called on the service that saves
ServiceFetchesContext == FetchContext("main")

\* the process is started again: both modules construct their service,
\* which loads the file
Restart ==
    /\ called # NoMethodCall
    /\ corrections' = [i \in Instances |-> corrections_file]
    /\ called' = NoMethodCall
    /\ learned_context' = <<>>
    /\ UNCHANGED corrections_file
    /\ UNCHANGED <<api_key, callvars, asyncvars, procvars, fnvars>>

InitLearn ==
    /\ api_key = TRUE
    /\ pc = [c \in CallIds |-> "idle"]
    /\ text = [c \in CallIds |-> <<>>]
    /\ native = [c \in CallIds |-> NONE]
    /\ has_items = [c \in CallIds |-> FALSE]
    /\ reply = [c \in CallIds |-> <<>>]
    /\ items = [c \in CallIds |-> <<>>]
    /\ idx = [c \in CallIds |-> 0]
    /\ vlog = [c \in CallIds |-> <<>>]
    /\ AsyncIdle
    /\ ProcIdle
    /\ FnIdle
    /\ LearnIdle

NextLearn ==
    \/ submit_correction
    \/ ExtractFetchesContext
    \/ ServiceFetchesContext
    \/ Restart

SpecLearn == InitLearn /\ [][NextLearn]_vars

(***************************************************************************)
(* Properties                                                              *)
(***************************************************************************)
\* item k of call c has been through the escalation loop
Processed(c, k) ==
    /\ pc[c] \in {"escalating", "returned"}
    /\ has_items[c]
    /\ k \in 1..Len(items[c])
    /\ k < idx[c]

\* verify_item was called for item k of call c
Called(c, k) == \E j \in 1..Len(vlog[c]) : vlog[c][j].item = k

\* the call of verify_item that a step of call c has just made, if any
JustCalled(c) == Len(vlog'[c]) = Len(vlog[c]) + 1

LastCall(c) == vlog'[c][Len(vlog'[c])]

\* C1: an item whose rule_confidence_score is >= 0.9 is never sent to the
\* verifier and its status stays unset; an item that has been through the
\* loop with a score < 0.9 and a non-empty snippet that is not a fallback
\* has been sent to the verifier.
C1_EscalationThreshold ==
    \A c \in CallIds : \A k \in 1..Len(items[c]) :
        LET m == items[c][k].metadata
        IN /\ m.rule_confidence_score >= 9
              => ~Called(c, k) /\ m.status = "unset"
           /\ (/\ Processed(c, k)
               /\ m.rule_confidence_score \in 0..8
               /\ Truthy(m.raw_text_snippet)
               /\ ~m.snippet_is_fallback)
              => Called(c, k)

\* C1 witness: a call has returned one item with score 0.9 that was not sent
\* to the verifier and one item with score 0.7 that was
C1_Witness ==
    /\ pc[0] = "returned"
    /\ \E k \in 1..Len(items[0]) :
          /\ items[0][k].metadata.rule_confidence_score = 9
          /\ ~Called(0, k)
    /\ \E k \in 1..Len(items[0]) :
          /\ items[0][k].metadata.rule_confidence_score = 7
          /\ ~items[0][k].metadata.snippet_is_fallback
          /\ Called(0, k)

\* the snippet of item k of call c had to be taken from its article_name:
\* none of the three tiers found a line for the item the extractor returned
TookFallback(c, k) ==
    used_fallback(reply[c][k],
                  target_line(reply[c][k],
                              Split(source_text(native[c], text[c]), "\n")))

\* C2: when a call has returned, every item whose snippet had to be taken
\* from its own article_name has snippet_is_fallback set, was not sent to the
\* verifier, and has the status verified_skipped_fallback.
C2_FallbackSkipped ==
    \A c \in CallIds :
        pc[c] = "returned" /\ has_items[c]
        => \A k \in 1..Len(items[c]) :
              TookFallback(c, k)
              => /\ items[c][k].metadata.snippet_is_fallback
                 /\ ~Called(c, k)
                 /\ items[c][k].metadata.status = "verified_skipped_fallback"

\* C3: a step in which the request of verify_item fails leaves the item as
\* it was, its status included, and the loop goes on to the next item.
C3_FailOpenKeepsStatus ==
    [][\A c \in CallIds :
          JustCalled(c) /\ LastCall(c).outcome.kind = "error"
          => /\ items'[c][idx[c]].metadata.status = items[c][idx[c]].metadata.status
             /\ items'[c][idx[c]].config = items[c][idx[c]].config
             /\ items'[c][idx[c]].article_name = items[c][idx[c]].article_name
             /\ idx'[c] = idx[c] + 1
             /\ pc'[c] = "escalating"]_vars

StatusValues ==
    {"unset", "raw_line_not_found", "verified_skipped_fallback", "verified_correct",
     "auto_corrected_by_verifier", "flagged_by_verifier"}

\* C4: the status of an item for which the verifier returned a result is
\* verified_correct for is_correct = true, auto_corrected_by_verifier for
\* is_correct = false with a correction, flagged_by_verifier for
\* is_correct = false without one; and every status is unset or one of
\* raw_line_not_found, verified_skipped_fallback, verified_correct,
\* auto_corrected_by_verifier, flagged_by_verifier.
C4_StatusFromResult ==
    \A c \in CallIds : \A k \in 1..Len(items[c]) :
        /\ items[c][k].metadata.status \in StatusValues
        /\ \A j \in 1..Len(vlog[c]) :
              (/\ vlog[c][j].item = k
               /\ vlog[c][j].outcome.kind = "reply"
               /\ vlog[c][j].outcome.reply.is_dict)
              => LET r == vlog[c][j].outcome.reply
                     status == items[c][k].metadata.status
                 IN /\ r.is_correct = "true" => status = "verified_correct"
                    /\ r.is_correct = "false" /\ r.correction.truthy
                       => status = "auto_corrected_by_verifier"
                    /\ r.is_correct = "false" /\ ~r.correction.truthy
                       => status = "flagged_by_verifier"

\* C4 witness: one call has returned an item of each of the three statuses
\* a verifier result gives
C4_Witness ==
    /\ pc[0] = "returned"
    /\ Len(vlog[0]) = 2
    /\ vlog[0][1].outcome.kind = "reply"
    /\ vlog[0][2].outcome.kind = "reply"
    /\ \E k \in 1..Len(items[0]) :
          items[0][k].metadata.status = "auto_corrected_by_verifier"
    /\ \E k \in 1..Len(items[0]) :
          items[0][k].metadata.status \in {"flagged_by_verifier", "verified_correct"}

\* C5: a step in which the verifier returns is_correct = false with a
\* correction sets every field of item.config that correction.config has to
\* the correction's value, keeps every other field of item.config, replaces
\* article_name only if the correction has article_name, and keeps pos,
\* quantity, unit and delivery_date.
C5_MergeFrame ==
    [][\A c \in CallIds :
          (/\ JustCalled(c)
           /\ LastCall(c).outcome.kind = "reply"
           /\ LastCall(c).outcome.reply.is_dict
           /\ LastCall(c).outcome.reply.is_correct = "false"
           /\ LastCall(c).outcome.reply.correction.truthy)
          => LET correction == LastCall(c).outcome.reply.correction
                 old == items[c][idx[c]]
                 new == items'[c][idx[c]]
             IN /\ \A key \in ConfigKeys :
                      new.config[key] = IF key \in correction.config_keys
                                        THEN correction.config[key]
                                        ELSE old.config[key]
                /\ new.article_name # old.article_name => correction.has_article_name
                /\ correction.has_article_name
                   => new.article_name = correction.article_name
                /\ new.pos = old.pos
                /\ new.quantity = old.quantity
                /\ new.unit = old.unit
                /\ new.delivery_date = old.delivery_date]_vars

\* C5 witness: a correction with form, material and dimensions has been
\* merged into an item that had a material_id and features of its own
C5_Witness ==
    \E k \in 1..Len(items[0]) :
        /\ items[0][k].metadata.status = "auto_corrected_by_verifier"
        /\ items[0][k].metadata.verification_result[1].correction = Corr_both
        /\ items[0][k].config.material = S_C45pC
        /\ items[0][k].config.form = NONE
        /\ items[0][k].config.material_id = S_MatId
        /\ items[0][k].config.features # <<>>
        /\ items[0][k].article_name = Corr_both.article_name

\* C6: every item that validate_and_fix_items returned has a
\* rule_confidence_score within [0, 1], and the score is 0.5 if the item has
\* no snippet.
C6_ScoreAlwaysPresent ==
    \A c \in CallIds :
        has_items[c]
        => \A k \in 1..Len(items[c]) :
              /\ items[c][k].metadata.rule_confidence_score \in 0..10
              /\ ~Truthy(items[c][k].metadata.raw_text_snippet)
                 => items[c][k].metadata.rule_confidence_score = 5

\* the run was chunked: the two partition calls were made
Chunked == \A c \in Partitions : pc[c] # "idle"

Finished == apc \in {"returned", "raised"}

\* the items of a are those of b, each as often
SameItems(a, b) ==
    /\ Len(a) = Len(b)
    /\ \A x \in {a[k] : k \in 1..Len(a)} :
          Cardinality({k \in 1..Len(a) : a[k] = x})
          = Cardinality({k \in 1..Len(b) : b[k] = x})

\* C7: a chunked run ends with an exception if and only if both partition
\* calls failed; if exactly one failed, the run returns the items of the
\* other one and nothing else.
C7_FailsIffBothFail ==
    Finished /\ Chunked
    => /\ apc = "raised" <=> \A c \in Partitions : pc[c] = "raised"
       /\ \A c, d \in Partitions :
             pc[c] = "raised" /\ pc[d] = "returned"
             => apc = "returned" /\ SameItems(merged, items[d])

\* float(pos) is defined: digits with at most one '.', an optional sign
IsNumber(s) ==
    LET body == IF Len(s) > 0 /\ s[1] \in {"+", "-"} THEN Tail(s) ELSE s
    IN /\ \E k \in 1..Len(body) : IsDigit(body[k])
       /\ \A k \in 1..Len(body) : IsDigit(body[k]) \/ body[k] = "."
       /\ Cardinality({k \in 1..Len(body) : body[k] = "."}) <= 1

ParsesAsNumber(item) == item.pos # NONE /\ IsNumber(Strip(item.pos))

\* the value of a pos that parses, times 1000
Milli(s) ==
    LET neg  == Len(s) > 0 /\ s[1] = "-"
        body == IF Len(s) > 0 /\ s[1] \in {"+", "-"} THEN Tail(s) ELSE s
        dots == {k \in 1..Len(body) : body[k] = "."}
        dot  == IF dots = {} THEN Len(body) + 1 ELSE CHOOSE k \in dots : TRUE
        frac == SubSeq(From(body, dot + 1) \o <<"0", "0", "0">>, 1, 3)
        abs  == 1000 * IntOf(SubSeq(body, 1, dot - 1)) + IntOf(frac)
    IN IF neg THEN 0 - abs ELSE abs

PosValue(item) == Milli(Strip(item.pos))

RECURSIVE NumericItems(_)
NumericItems(list) ==
    IF Len(list) = 0 THEN <<>>
    ELSE (IF ParsesAsNumber(list[1]) THEN <<list[1]>> ELSE <<>>)
         \o NumericItems(Tail(list))

RECURSIVE OtherItems(_)
OtherItems(list) ==
    IF Len(list) = 0 THEN <<>>
    ELSE (IF ParsesAsNumber(list[1]) THEN <<>> ELSE <<list[1]>>)
         \o OtherItems(Tail(list))

RECURSIVE InsertByValue(_, _)
InsertByValue(sorted, item) ==
    IF Len(sorted) = 0 THEN <<item>>
    ELSE IF PosValue(item) < PosValue(sorted[1]) THEN <<item>> \o sorted
    ELSE <<sorted[1]>> \o InsertByValue(Tail(sorted), item)

\* the items in ascending order of the value of pos, equal ones in the
\* order they have in list
RECURSIVE SortByValue(_)
SortByValue(list) ==
    IF Len(list) = 0 THEN <<>>
    ELSE InsertByValue(SortByValue(SubSeq(list, 1, Len(list) - 1)), list[Len(list)])

\* C8: the list a chunked run returns has first the items whose pos parses
\* as a number, in ascending order of that number, equal ones in extraction
\* order, then the items whose pos does not, in extraction order.
C8_MergeOrder ==
    apc = "returned" /\ Chunked
    => merged = SortByValue(NumericItems(PartItems(1) \o PartItems(2)))
                \o OtherItems(PartItems(1) \o PartItems(2))

\* C9: once extract_data_from_text_async has looked at a non-empty text, the
\* two partition calls have been made if and only if the text has more than
\* 100 lines, and one call on the whole text otherwise.
C9_ChunkAbove100 ==
    apc # "invoked" /\ Truthy(atext)
    => /\ Chunked <=> Len(Split(atext, "\n")) > 100
       /\ pc[0] # "idle" <=> Len(Split(atext, "\n")) <= 100

\* C10: in a chunked run no item of a partition has its snippet, its
\* normalized fields, its score or its verifier result before both partition
\* calls have ended, and the list the run returns has been through those
\* steps as one list.
C10_JoinBeforeDownstream ==
    Chunked
    => \A c \in Partitions :
          (\E k \in 1..Len(items[c]) : items[c][k].metadata # EmptyMeta)
          => \A d \in Partitions : Ended(d)

\* the secondary text is the source validate_and_fix_items would read
HasSecondary == Truthy(anative) /\ source_text(anative, atext) = anative

\* C11: in a chunked run with a secondary text no partition call is given
\* the secondary text, and every item of the list the run returns that has a
\* located snippet has lines of the secondary text as its snippet.
C11_SecondaryOnMerged ==
    apc = "returned" /\ Chunked /\ HasSecondary
    => /\ \A c \in Partitions : native[c] = NONE
       /\ \A k \in 1..Len(merged) :
             (/\ Truthy(merged[k].metadata.raw_text_snippet)
              /\ ~merged[k].metadata.snippet_is_fallback)
             => Contains(anative, merged[k].metadata.raw_text_snippet)

\* the task of send_to_n8n ended without data: exception, non-200, timeout
N8nUnavailable == n8n_task \in {"failed", "non200", "cancelled"}

\* C12: the task of send_to_n8n is created before the extraction of the
\* primary pipeline begins, and a step after the extraction has returned
\* that finds the task failed, answered with a non-200 reply or timed out
\* (the wait is bounded: the handler goes on while the task is pending)
\* leaves every item as the extraction returned it and, if it responds,
\* responds with 200.
C12_CrossValidationOptional ==
    /\ [](pc[0] # "idle" => n8n_task # "none")
    /\ [][(pc[0] = "returned" /\ N8nUnavailable')
          => /\ items'[0] = items[0]
             /\ hpc' = "responded" => http_status' = 200]_vars

\* C12 witness: the handler has responded with validated items although the
\* wait for the task timed out
C12_Witness ==
    /\ hpc = "responded"
    /\ http_status = 200
    /\ n8n_task = "cancelled"
    /\ has_items[0]
    /\ Len(items[0]) = 2
    /\ items[0][1].metadata.status = "verified_correct"

\* validate_and_fix_items has returned to call c and no item has been
\* through the escalation loop yet
Validated(c) == pc[c] = "escalating" /\ has_items[c] /\ idx[c] = 1

\* C13: every item that validate_and_fix_items returned has an article_name
\* that is neither null nor empty.
C13_ArticleNameNeverEmpty ==
    \A c \in CallIds :
        Validated(c) => \A k \in 1..Len(items[c]) : Truthy(items[c][k].article_name)

\* the lines validate_and_fix_items searched for call c
SourceLines(c) == Split(source_text(native[c], text[c]), "\n")

Returned(f) == fn = f /\ fn_out # NotReturned

\* the lines validate_and_fix_items searched
FnSourceLines == Split(source_text(fn_in[2], fn_in[3]), "\n")

\* line i starts with the item's pos, followed by whitespace
StartsWithPos(item, line) ==
    /\ item.pos # NONE
    /\ Strip(item.pos) # <<>>
    /\ \E k \in 0..Len(line) :
          /\ \A j \in 1..k : IsSpace(line[j])
          /\ MatchAt(line, k + 1, Strip(item.pos))
          /\ k + Len(Strip(item.pos)) + 1 <= Len(line)
          /\ IsSpace(line[k + Len(Strip(item.pos)) + 1])

HasMaterialIdLine(item, lines) ==
    /\ Truthy(item.config.material_id)
    /\ \E i \in 1..Len(lines) : Contains(lines[i], item.config.material_id)

\* the first line that starts with pos and the five lines below it
PosWindowOf(item, lines) ==
    LET first == CHOOSE i \in 1..Len(lines) :
                    /\ StartsWithPos(item, lines[i])
                    /\ \A j \in 1..(i - 1) : ~StartsWithPos(item, lines[j])
        last  == IF first + 5 > Len(lines) THEN Len(lines) ELSE first + 5
    IN Join(SubSeq(lines, first, last), <<"\n">>)

\* C15: if the source text has a line that starts with the item's pos and a
\* line that holds its material_id, the snippet of the returned item is the
\* window of the position line.
C15_PositionAnchorWins ==
    Returned("validate_and_fix_items")
    => \A k \in 1..Len(fn_in[1]) :
          (/\ \E i \in 1..Len(FnSourceLines) : StartsWithPos(fn_in[1][k], FnSourceLines[i])
           /\ HasMaterialIdLine(fn_in[1][k], FnSourceLines))
          => fn_out[1][k].metadata.raw_text_snippet
             = PosWindowOf(fn_in[1][k], FnSourceLines)

\* C15 witness: in Text3 the material_id line comes first and the line of
\* pos 2 after it; the snippet of the item that has both is the line of pos 2
C15_Witness ==
    /\ Returned("validate_and_fix_items")
    /\ fn_in[3] = Text3
    /\ fn_in[1][1] = Cand_posmatid
    /\ fn_out[1][1].metadata.raw_text_snippet = Line_pos2
    /\ MatIdSnippet(Cand_posmatid, FnSourceLines) = Line_matid

\* the item scored, with its one-letter form doubled: a form that is no
\* label of the snippet and is not empty
WithoutLabelForm(item) == [item EXCEPT !.config.form = @ \o @]

\* C16: when form is one letter L and the snippet holds "L=", the score is
\* 0.4 below the score the same item gets without the confusion, whatever
\* the letter (scores in tenths, and as long as that score leaves 0.4 to
\* take).
C16_FormLabelPenaltyOnce ==
    (/\ Returned("calculate_confidence")
     /\ Truthy(fn_in[1].config.form)
     /\ Len(fn_in[1].config.form) = 1
     /\ Contains(fn_in[2], fn_in[1].config.form \o <<"=">>)
     /\ calculate_confidence(WithoutLabelForm(fn_in[1]), fn_in[2]) >= 4)
    => fn_out[1] = calculate_confidence(WithoutLabelForm(fn_in[1]), fn_in[2]) - 4

\* the numbers the texts are built from, as written and as floats
NumberValues ==
    {<<<<"8">>, <<8, 0>>>>, <<<<"1","0">>, <<10, 0>>>>, <<<<"1",".","5">>, <<15, 1>>>>,
     <<<<"7",",","5">>, <<75, 1>>>>, <<<<"9">>, <<9, 0>>>>, <<<<"1","1">>, <<11, 0>>>>,
     <<<<"7">>, <<7, 0>>>>, <<<<"6",".","3">>, <<63, 1>>>>, <<<<"3","6">>, <<36, 0>>>>}

ValueOf(written) == (CHOOSE p \in NumberValues : p[1] = written)[2]

\* C17: for a text that holds <w>H<t>x<h>x<l>, parse_dimensions_from_string
\* returns width w, height h and length l, and t is the value of no field,
\* also when a plain triple stands before or after it.
C17_ToleranceNotADimension ==
    Returned("parse_dimensions_from_string")
    => \A pre \in DimPrefixes, w \in DimWidths, hh \in DimHs, t \in DimGrades,
          sep \in DimSeps, h \in DimHeights, l \in DimLengths, suf \in DimSuffixes :
          fn_in[1] = TolerancedTriple(pre, w, hh, t, sep, h, l, suf)
          => /\ fn_out[1] = [width |-> ValueOf(w), height |-> ValueOf(h),
                             length |-> ValueOf(l)]
             /\ \A key \in {"width", "height", "length"} : fn_out[1][key] # ValueOf(t)

\* C17 witness: between two plain triples, the text
\* "20x12x50 1.5H11x6.3x36 5x4x3" has been parsed to 1.5, 6.3 and 36
C17_Witness ==
    /\ Returned("parse_dimensions_from_string")
    /\ fn_in[1] = TolerancedTriple(<<"2","0","x","1","2","x","5","0"," ">>, <<"1",".","5">>,
                                   <<"H">>, <<"1","1">>, <<"x">>, <<"6",".","3">>,
                                   <<"3","6">>, <<" ","5","x","4","x","3">>)
    /\ fn_out[1] = [width |-> <<15, 1>>, height |-> <<63, 1>>, length |-> <<36, 0>>]

\* a thread/bore code stands at indices i..j of s: M or m and digits, with
\* whitespace, a hyphen or a boundary of the text on both sides
IsThreadCodeAt(s, i, j) ==
    /\ 1 <= i /\ i < j /\ j <= Len(s)
    /\ s[i] \in {"M", "m"}
    /\ \A k \in (i + 1)..j : s[k] \in {"0","1","2","3","4","5","6","7","8","9"}
    /\ i = 1 \/ s[i - 1] \in {" ", "-", "\n", "\t"}
    /\ j = Len(s) \/ s[j + 1] \in {" ", "-", "\n", "\t"}

\* C18: extract_features_from_string returns a feature for every thread/bore
\* code of the text, also for each of several codes separated by one space
\* or hyphen, and for codes outside M1..M21.
C18_EveryThreadCode ==
    Returned("extract_features_from_string")
    => \A i, j \in 1..Len(fn_in[1]) :
          IsThreadCodeAt(fn_in[1], i, j)
          => \E k \in 1..Len(fn_out[1]) :
                fn_out[1][k].spec = Upper(SubSeq(fn_in[1], i, j))

\* the features of an item as a list: none for a null
FeatureList(item) ==
    IF item.config.features = NullFeatures THEN <<>> ELSE item.config.features

\* no two entries of the list have the same spec
DistinctSpecs(features) ==
    \A a, b \in 1..Len(features) : features[a].spec = features[b].spec => a = b

\* the list after keeps the list before as its head, and every entry behind
\* it has a spec that no entry before it in the list has
AppendedIfAbsent(before, after) ==
    /\ Len(after) >= Len(before)
    /\ SubSeq(after, 1, Len(before)) = before
    /\ \A b \in (Len(before) + 1)..Len(after) :
          \A a \in 1..(b - 1) : after[a].spec # after[b].spec

\* C19: after validate_and_fix_items no item's features hold two entries
\* with the same spec; the entries the item came with are kept in their
\* order, and an entry is appended only if no entry has its spec.
C19_FeaturesDistinctBySpec ==
    Returned("validate_and_fix_items")
    => \A k \in 1..Len(fn_out[1]) :
          /\ DistinctSpecs(FeatureList(fn_out[1][k]))
          /\ AppendedIfAbsent(FeatureList(fn_in[1][k]), FeatureList(fn_out[1][k]))

\* the materials of the whitelist that occur verbatim in the text
MaterialsIn(snippet) ==
    {BackfillMaterials[m] : m \in 1..Len(BackfillMaterials)}
    \cap {SubSeq(snippet, i, j) : i, j \in 1..Len(snippet)}

\* C20: an item that came with an empty config.material and whose located
\* snippet holds a whitelist material verbatim leaves validate_and_fix_items
\* with a whitelist material that occurs in the snippet.
C20_MaterialBackfilled ==
    Returned("validate_and_fix_items")
    => \A k \in 1..Len(fn_out[1]) :
          (/\ ~Truthy(fn_in[1][k].config.material)
           /\ Truthy(fn_out[1][k].metadata.raw_text_snippet)
           /\ MaterialsIn(fn_out[1][k].metadata.raw_text_snippet) # {})
          => fn_out[1][k].config.material
                \in MaterialsIn(fn_out[1][k].metadata.raw_text_snippet)

\* C21: an item whose config.material the normalization has changed from
\* old to new is returned with "old -> new" in
\* metadata.material_auto_corrected, and an article_name that held the old
\* value holds it no longer.
C21_MaterialChangeRecorded ==
    Returned("validate_and_fix_items")
    => \A k \in 1..Len(fn_out[1]) :
          (/\ Truthy(fn_in[1][k].config.material)
           /\ fn_out[1][k].config.material # fn_in[1][k].config.material)
          => /\ fn_out[1][k].metadata.material_auto_corrected
                   = fn_in[1][k].config.material \o <<" ","-",">"," ">>
                        \o fn_out[1][k].config.material
             /\ (/\ Truthy(fn_in[1][k].article_name)
                 /\ Contains(fn_in[1][k].article_name, fn_in[1][k].config.material))
                => ~Contains(fn_out[1][k].article_name, fn_in[1][k].config.material)

\* keyword k occurs in t, whatever the case of t's letters
HasKeyword(t, k) ==
    \E i \in 1..Len(t) :
        /\ i + Len(k) - 1 <= Len(t)
        /\ \A n \in 1..Len(k) : LowerChar(t[i + n - 1]) = k[n]

\* the block holds an example with this raw text and this output
HasExample(block, raw_text, output) ==
    \E n \in 1..(Len(block) - 1) :
        /\ block[n] = [label |-> "RAW TEXT", value |-> raw_text]
        /\ block[n + 1] = [label |-> "CORRECT OUTPUT", value |-> output]

\* C22: get_few_shot_context(text), called right after
\* save_correction(snippet, corrected_json, context) on the same service with
\* a keyword that is in context and in text, returns a LEARNED CORRECTIONS
\* block that holds the snippet with its corrected JSON.
C22_SavedThenRetrieved ==
    [][(/\ called.op = "save_correction"
        /\ called'.op = "get_few_shot_context"
        /\ called'.service = called.service
        /\ \E k \in 1..Len(keywords) :
              /\ HasKeyword(called.context, keywords[k])
              /\ HasKeyword(called'.text, keywords[k]))
       => /\ Len(learned_context') > 0
          /\ learned_context'[1].label = "LEARNED CORRECTIONS"
          /\ HasExample(learned_context', Strip(called.snippet), Dumps(called.json))]_vars

\* the stored correction has a fingerprint that is a keyword of t
SharesKeyword(corr, t) ==
    \E k \in 1..Len(keywords), j \in 1..Len(corr.fingerprints) :
        /\ HasKeyword(t, keywords[k])
        /\ corr.fingerprints[j] = keywords[k]

\* C23: what get_few_shot_context(text) returns holds no stored correction
\* whose fingerprints share no keyword with text, and is the empty string
\* when no stored correction shares one (as when text has no keyword).
C23_OnlySharedFingerprints ==
    called.op = "get_few_shot_context"
    => /\ \A n \in 1..Len(corrections[called.service]) :
             ~SharesKeyword(corrections[called.service][n], called.text)
             => ~HasExample(learned_context,
                            corrections[called.service][n].raw_text,
                            Dumps(corrections[called.service][n].correction))
       /\ (\A n \in 1..Len(corrections[called.service]) :
             ~SharesKeyword(corrections[called.service][n], called.text))
          => learned_context = <<>>

\* C23 witness: a block was returned that leaves out a stored correction
\* saved with another keyword
C23_Witness ==
    /\ called.op = "get_few_shot_context"
    /\ learned_context # <<>>
    /\ \E n \in 1..Len(corrections[called.service]) :
          /\ corrections[called.service][n].fingerprints # <<>>
          /\ ~SharesKeyword(corrections[called.service][n], called.text)
          /\ ~HasExample(learned_context,
                         corrections[called.service][n].raw_text,
                         Dumps(corrections[called.service][n].correction))

\* the corrections saved through /correct that share a keyword with t
SavedFor(t) ==
    {n \in 1..Len(corrections["main"]) : SharesKeyword(corrections["main"][n], t)}

\* C24: when extract_data_from_text fetches the learned context for a text,
\* the context holds the correction last saved through /correct among those
\* that share a keyword with the text.
C24_CorrectionReachesExtractor ==
    (/\ called.op = "get_few_shot_context"
     /\ called.service = "ai"
     /\ SavedFor(called.text) # {})
    => \E n \in SavedFor(called.text) :
          /\ \A m \in SavedFor(called.text) : m <= n
          /\ HasExample(learned_context, corrections["main"][n].raw_text,
                        Dumps(corrections["main"][n].correction))

\* no two entries of the list have the same raw_text and the same correction,
\* and every raw_text is stripped
NoDuplicates(list) ==
    /\ \A a, b \in 1..Len(list) :
          (/\ list[a].raw_text = list[b].raw_text
           /\ list[a].correction = list[b].correction) => a = b
    /\ \A a \in 1..Len(list) : list[a].raw_text = Strip(list[a].raw_text)

\* the stripped snippet and the correction of the call are in the list
IsStored(list, snippet, json) ==
    \E n \in 1..Len(list) : list[n].raw_text = Strip(snippet) /\ list[n].correction = json

\* C30: no store, in memory or in the file, ever holds two entries with the
\* same stripped raw_text and the same correction, and a save_correction
\* whose pair is already stored changes neither the list nor the file,
\* whatever the context of the call.
C30_NoDuplicateCorrections ==
    /\ [](/\ \A i \in Instances : NoDuplicates(corrections[i])
          /\ NoDuplicates(corrections_file))
    /\ [][(/\ called'.op = "save_correction"
           /\ IsStored(corrections[called'.service], called'.snippet, called'.json))
          => /\ corrections' = corrections
             /\ corrections_file' = corrections_file]_vars

\* C30 witness: a pair stored with one context was saved again, padded with
\* whitespace and with another context, and the store holds it once
C30_Witness ==
    /\ called.op = "save_correction"
    /\ called.snippet # Strip(called.snippet)
    /\ \E n \in 1..Len(corrections[called.service]) :
          /\ corrections[called.service][n].raw_text = Strip(called.snippet)
          /\ corrections[called.service][n].correction = called.json
          /\ corrections[called.service][n].fingerprints # fingerprint_text(called.context)
    /\ Len(corrections[called.service]) > 1
    /\ corrections_file = corrections[called.service]

\* item k was returned with a snippet that the search found
Located(k) ==
    /\ Truthy(fn_out[1][k].metadata.raw_text_snippet)
    /\ ~fn_out[1][k].metadata.snippet_is_fallback

\* the snippet is a run of consecutive lines of t
FromLines(snippet, t) ==
    /\ Truthy(t)
    /\ \E i, j \in 1..Len(Split(t, "\n")) :
          i <= j /\ Join(SubSeq(Split(t, "\n"), i, j), <<"\n">>) = snippet

\* C25: validate_and_fix_items takes its snippets from the OCR text whenever
\* the OCR text is longer than 20 characters, and from the native text only
\* when the OCR text is empty or at most 20 characters long.
C25_OcrTextSearchedFirst ==
    Returned("validate_and_fix_items")
    => \A k \in 1..Len(fn_out[1]) :
          Located(k)
          => FromLines(fn_out[1][k].metadata.raw_text_snippet,
                       IF Len(fn_in[3]) > 20 THEN fn_in[3] ELSE fn_in[2])

\* C25 as the code has it: the snippets are taken from the native text
\* whenever it is not empty and longer than 20 characters, and from the OCR
\* text only otherwise.
C25_NativeTextSearchedFirst ==
    Returned("validate_and_fix_items")
    => \A k \in 1..Len(fn_out[1]) :
          Located(k)
          => FromLines(fn_out[1][k].metadata.raw_text_snippet,
                       IF Truthy(fn_in[2]) /\ Len(fn_in[2]) > 20
                       THEN fn_in[2] ELSE fn_in[3])

\* C25 witness: both texts are longer than 20 characters, the native one by
\* one character, and a snippet is a line of the native text that the OCR
\* text does not have
C25_Witness ==
    /\ Returned("validate_and_fix_items")
    /\ Len(fn_in[3]) > 20
    /\ Truthy(fn_in[2])
    /\ Len(fn_in[2]) = 21
    /\ \E k \in 1..Len(fn_out[1]) :
          /\ Located(k)
          /\ FromLines(fn_out[1][k].metadata.raw_text_snippet, fn_in[2])
          /\ ~FromLines(fn_out[1][k].metadata.raw_text_snippet, fn_in[3])

\* the hyphen-separated tokens of the item's article_name that are longer
\* than 3 characters, by their place in the name
LongTokens(item) ==
    IF ~Truthy(item.article_name) THEN {}
    ELSE {n \in 1..Len(Split(item.article_name, "-")) :
             Len(Split(item.article_name, "-")[n]) > 3}

\* the line holds at least two of the tokens
HoldsTwoTokens(item, line) ==
    \E a, b \in LongTokens(item) :
        /\ a # b
        /\ Contains(line, Split(item.article_name, "-")[a])
        /\ Contains(line, Split(item.article_name, "-")[b])

\* C26: an item that no line anchors by its pos or by its material_id, and
\* for which some line holds at least two of the long tokens of its
\* article_name, is returned with the first such line as its snippet and
\* without the fallback flag.
C26_TwoTokensSuffice ==
    Returned("validate_and_fix_items")
    => \A k \in 1..Len(fn_in[1]) :
          (/\ ~\E i \in 1..Len(FnSourceLines) : StartsWithPos(fn_in[1][k], FnSourceLines[i])
           /\ ~HasMaterialIdLine(fn_in[1][k], FnSourceLines)
           /\ \E i \in 1..Len(FnSourceLines) : HoldsTwoTokens(fn_in[1][k], FnSourceLines[i]))
          => /\ \E i \in 1..Len(FnSourceLines) :
                   /\ HoldsTwoTokens(fn_in[1][k], FnSourceLines[i])
                   /\ \A j \in 1..(i - 1) : ~HoldsTwoTokens(fn_in[1][k], FnSourceLines[j])
                   /\ fn_out[1][k].metadata.raw_text_snippet = FnSourceLines[i]
             /\ ~fn_out[1][k].metadata.snippet_is_fallback

\* the lines of the text that was split
SplitLines == Split(fn_in[1], "\n")

SplitLineCount == Len(SplitLines)

Distance(a, b) == IF a < b THEN b - a ELSE a - b

\* the indices, counted from 0, within 14 lines of midpoint whose line holds
\* nothing but whitespace
BlankNear(lines, midpoint) ==
    {k \in 0..(Len(lines) - 1) :
        /\ Distance(k, midpoint) <= 14
        /\ \A j \in 1..Len(lines[k + 1]) : lines[k + 1][j] \in {" ", "\t", "\r"}}

\* split is the member of blank nearest to midpoint, the later one of two
\* that are as near
NearestOf(blank, midpoint, split) ==
    /\ split \in blank
    /\ \A k \in blank :
          \/ Distance(split, midpoint) < Distance(k, midpoint)
          \/ Distance(split, midpoint) = Distance(k, midpoint) /\ split >= k

C28_SplitKeepsLines ==
    Returned("split")
    => /\ 0 < fn_out[1].split_idx
       /\ fn_out[1].split_idx < SplitLineCount
       /\ fn_out[1].chunk1_text # <<>>
       /\ fn_out[1].chunk2_text # <<>>
       /\ Split(fn_out[1].chunk1_text, "\n") \o Split(fn_out[1].chunk2_text, "\n")
             = SplitLines
       /\ Len(Split(fn_out[1].chunk1_text, "\n")) = fn_out[1].split_idx

\* C28 witness: a text of 101 lines split at a line that holds one space,
\* 13 lines before the midpoint
C28_Witness ==
    /\ Returned("split")
    /\ SplitLineCount = 101
    /\ fn_out[1].split_idx = 37
    /\ SplitLines[38] = <<" ">>
    /\ Split(fn_out[1].chunk2_text, "\n")[1] = <<" ">>

\* the outcome the verifier's request had for item k of partition c
OutcomeAt(c, k) ==
    IF \E j \in 1..Len(vlog[c]) : vlog[c][j].item = k
    THEN vlog[c][CHOOSE j \in 1..Len(vlog[c]) : vlog[c][j].item = k].outcome
    ELSE NoCall

\* what extract_data_from_text makes of partition c's reply and verifier
\* outcomes when it runs on its own, from its first line to its last
AloneItems(c) ==
    LET validated == validate_and_fix_items(reply[c], native[c], text[c])
    IN [k \in 1..Len(validated) |->
           escalate_item(validated[k], api_key, OutcomeAt(c, k))]

\* what partition c gives to the merge: nothing if it failed or returned no
\* list
Contribution(c) ==
    IF pc[c] = "returned" /\ has_items[c] THEN AloneItems(c) ELSE <<>>

\* C29: whatever the order in which the steps of the two partition calls
\* were taken and whichever ended first, the list a chunked run returns is
\* the merge of what each partition yields when run on its own: nothing for
\* one that failed, and for one that returned the same items whether the
\* other one failed or returned.
C29_OrderIndependent ==
    apc = "returned" /\ Chunked
    => merged = merge_items(Contribution(1) \o Contribution(2))

\* C29 witness: partition 1 failed, partition 2 went through a verifier
\* call, and the run returned partition 2's items
C29_Witness ==
    /\ apc = "returned"
    /\ Chunked
    /\ pc[1] = "raised"
    /\ pc[2] = "returned"
    /\ vlog[2] # <<>>
    /\ merged # <<>>
    /\ merged = merge_items(AloneItems(2))
====
